---- MODULE Spec2Model ----
(***************************************************************************)
(* A model of the concurrent core of gitui:                                *)
(*   - the dynamic job queue (src/async_jobs.rs) and the UI event loop     *)
(*     that feeds it and drains its feedback (src/main.rs, run_app);       *)
(*   - the interactive-rebase handshake between the application and the    *)
(*     sequence-editor instance of itself (asyncgit/src/sync/extern_git.rs,*)
(*     src/main.rs dummy_mode), called from the commit list;               *)
(*   - the log walker (asyncgit/src/sync/logwalker.rs);                    *)
(*   - the lines of the rebase todo file and the drop and fixup mutators   *)
(*     (asyncgit/src/sync/extern_git.rs);                                  *)
(*   - marking in the commit list (src/components/commitlist.rs);          *)
(*   - movement, line numbers and the search of the blame view, and the    *)
(*     stack of its requests (src/components/blame_file.rs);               *)
(*   - the selection of the diff view and its key events: numbers before   *)
(*     Up and Down, copying, searching (src/components/diff.rs);           *)
(*   - the stored options: external commands, commit messages and branch   *)
(*     shortcuts (src/options.rs);                                         *)
(*   - the key combinations and the search of the commit list              *)
(*     (src/components/commitlist.rs);                                     *)
(*   - the update ticker of the event loop (src/main.rs);                  *)
(*   - the popup of external commands                                      *)
(*     (src/components/external_command_popup.rs).                         *)
(* Each part has its own specification (SpecJobs, SpecRebase, SpecWalk,    *)
(* SpecTodo, SpecMarks, SpecBlame, SpecDiff, SpecDiffKeys, SpecOptions,    *)
(* SpecCombo, SpecCommitSearch, SpecBlameStack, SpecTick, SpecPopup);      *)
(* the variables of the other parts keep their initial values.             *)
(***************************************************************************)
EXTENDS Integers, Sequences, FiniteSets, TLC

VARIABLES
    \* ---- dynamic job queue and UI loop
    jobs,          \* the job channel (send_job -> receive_job), oldest first
    feedback,      \* the feedback channel (send_job_feeback -> dyn_jobs_feedback)
    rx_app,        \* AsyncAppNotification::Notify values pending on tx_app/rx_app
    wpc,           \* where the worker thread is in run_loop
    cur,           \* the job j the worker holds
    res,           \* the value of j.run(..): None or Some(feedback)
    upc,           \* where the UI thread is in run_app
    event,         \* the QueueEvent of the current loop iteration
    first_update,  \* run_app's first_update flag
    app,           \* the App state the feedback's visit hooks change
    alive,         \* run_app has not returned: its channel ends still exist
    sent,          \* history: the jobs sent, in send order (a job's id is its place)
    started,       \* history: ids of the jobs whose run was entered, in order
    returned,      \* history: ids of the jobs whose run returned, in order
    fbSent,        \* history: feedback values put on the feedback channel
    notified,      \* history: ids of the jobs after which Notify was sent
    snap,          \* history: the feedback pending when the iteration began
    \* ---- interactive rebase through the sequence-editor child
    local_queue,   \* CommitList::local_queue: confirmed popups not yet processed
    queue,         \* the application queue: InternalEvents the commit list pushed
    rthread,       \* the thread that executes rebase_interactive
    rpc,           \* where that thread is in rebase_interactive
    rresult,       \* what rebase_interactive returned
    script,        \* the helper script TempEditor wrote in the cache directory
    shm,           \* the shared memory gitui_<pid>: both events and the string slot
    gpc,           \* where the spawned git process is
    cpc,           \* where the sequence-editor child (dummy_mode) is
    file_path,     \* the todo-file path git hands the sequence editor
    todo_file,     \* rebase_interactive's local todo_file
    todo,          \* the todo file: as git wrote it, or rewritten by the mutator
    git_todo,      \* the todo git read after its editor returned
    rhist,         \* history: the steps of the handshake, in order
    \* ---- log walker
    repo,          \* the repository: each commit's parents and commit time
    lpc,           \* the walker's life: none, new, configured, read
    walker,        \* the LogWalker: commits (heap), visited, limit, filter ..
    out,           \* the vector the caller passes to read
    ret,           \* what the last read or read_eof returned
    examined,      \* history: the commits popped by all calls, in order
    last,          \* history: what the last call found and did
    \* ---- rebase todo lines
    ppc,           \* idle, parsed, printed, reparsed, mutated
    line,          \* the todo line given to RebaseCommit::try_parse
    rebase_commit, \* its result
    printed,       \* RebaseCommit::to_string of the result
    reparsed,      \* RebaseCommit::try_parse of that string
    todo_lines,    \* the lines of the todo file the mutator reads
    hashed_commits,\* the full hashes given to rebase_drop/fixup_commits
    new_op,        \* the operation the mutator sets: Drop or Fixup
    written,       \* the lines write_rebase_todo writes
    \* ---- commit list: marking
    mpc,           \* the commit list is running, or the process has panicked
    index_offset,  \* ItemBatch: the log position of the first loaded item
    items,         \* ItemBatch: the loaded items (their commit ids)
    selection,     \* CommitList::selection, a position in the whole log
    marked,        \* CommitList::marked, a list of (index, commit id)
    handled,       \* history: the last confirmed operation and how it went
    pushed,        \* the events that operation pushed to the queue
    \* ---- blame view: search
    blame_state,   \* BlameState (Normal, SearchEditing), Closed or Panicked
    blame_lines,   \* file_blame.lines: the text of each line
    table_state,   \* the selected line
    search,        \* SearchState: str, start, found
    last_key,      \* history: the key handled last
    temp_buf,      \* the line number typed so far, if any
    \* ---- diff view: selection
    diff,          \* DiffComponent::diff: None or the line count of the FileDiff
    current,       \* DiffComponent::current: path and hash of the diff shown
    diff_selection,\* DiffComponent::selection
    diff_key,      \* history: the key handled last, and the selection before it
    hunks,         \* FileDiff::hunks: the number of lines of each hunk
    selected_hunk, \* DiffComponent::selected_hunk: None or a hunk index
    copy_op,       \* DiffComponent::copy_op
    pending_movement, \* DiffComponent::pending_movement
    diff_search,   \* DiffComponent::search
    clipboard,     \* the line indices the last key event copied, if it copied
    diff_panicked, \* the last key event panicked
    key_event,     \* history: the key of the last key event
    search_before, \* history: the kind of search state that event started in
    \* ---- options
    extern_cmds,   \* OptionsData::extern_cmds: (command, shortcut) pairs
    commit_msgs,   \* OptionsData::commit_msgs; a message is the number of its add
    branch_shortcuts, \* OptionsData::branch_shortcuts: (branch, shortcut) pairs
    msgs_added,    \* history: how many times add_commit_msg was called
    opt_op,        \* history: the operation called last, and its arguments
    \* ---- key combos of the commit list
    combo_state,   \* CommitList::combo_state
    focused_field, \* CommitList::focused_field
    search_field_visible, \* search_field.is_visible()
    filter_field_visible, \* filter_field.is_visible()
    search_options, \* the author, message and sha flags of search_options
    filter_options, \* the author and message flags of filter_options
    combo_key,     \* history: the key of the last key event of the list
    \* ---- search in the commit list
    cs_offset,     \* ItemBatch::index_offset of the loaded batch
    cs_items,      \* the loaded batch: author, msg and hash_full of each item
    cs_selection,  \* CommitList::selection
    current_search, \* CommitList::current_search
    cs_options,    \* the flags of search_options the search reads
    extended_search_request, \* CommitList::extended_search_request
    cs_op,         \* history: the operation called last and what it returned
    \* ---- the stack of blame requests
    open_request,  \* BlameFileComponent::open_request
    blame_row,     \* table_state.selected()
    file_blame,    \* file_blame is Some: the blame of the request is loaded
    last_blame,    \* the request whose blame async_blame.last() holds
    previous_request_stack, \* BlameFileComponent::previous_request_stack
    pushes,        \* history: what was current at each push not yet popped
    restored,      \* history: what the last pop had to restore
    \* ---- the update ticker of the event loop
    update_ticker, \* run_app's update_ticker
    tick_pc,       \* "loop" while run_app runs its loop, "failed" after an error
    tick_event,    \* history: the event of the last iteration
    tick_ran,      \* history: which of app.update() and app.on_tick() it ran
    since_update,  \* history: the Tick and Notify events since app.update() ran
    \* ---- the external-command popup
    popup_visible, \* ExternalCommandPopupComponent::visible
    popup_focused, \* ExternalCommandPopupComponent::focused
    selected_idx,  \* ExternalCommandPopupComponent::selected_idx
    shortcut_state, \* ExternalCommandPopupComponent::shortcut_state
    cmd_pending,   \* ExternalCommandPopupComponent::cmd_pending
    in_flight,     \* the commands sent whose feedback has not been applied
    popup_key,     \* history: the key of the last key event of the popup
    popup_panicked \* the last key event panicked

jobVars == <<jobs, feedback, rx_app, wpc, cur, res, upc, event, first_update,
             app, alive, sent, started, returned, fbSent, notified, snap>>

rebaseVars == <<local_queue, queue, rthread, rpc, rresult, script, shm, gpc,
                cpc, file_path, todo_file, todo, git_todo, rhist>>

walkVars == <<repo, lpc, walker, out, ret, examined, last>>

todoVars == <<ppc, line, rebase_commit, printed, reparsed, todo_lines,
              hashed_commits, new_op, written>>

\* the parts modelled after the walker
markVars == <<mpc, index_offset, items, selection, marked, handled, pushed>>

blameVars == <<blame_state, blame_lines, table_state, search, last_key, temp_buf>>

diffVars == <<diff, current, diff_selection, diff_key, hunks, selected_hunk,
              copy_op, pending_movement, diff_search, clipboard, diff_panicked,
              key_event, search_before>>

optVars == <<extern_cmds, commit_msgs, branch_shortcuts, msgs_added, opt_op>>

comboVars == <<combo_state, focused_field, search_field_visible,
               filter_field_visible, search_options, filter_options, combo_key>>

\* the parts modelled after the options
csVars == <<cs_offset, cs_items, cs_selection, current_search, cs_options,
            extended_search_request, cs_op>>

stackVars == <<open_request, blame_row, file_blame, last_blame,
               previous_request_stack, pushes, restored>>

tickVars == <<update_ticker, tick_pc, tick_event, tick_ran, since_update>>

popupVars == <<popup_visible, popup_focused, selected_idx, shortcut_state,
               cmd_pending, in_flight, popup_key, popup_panicked>>

moreVars == <<comboVars, csVars, stackVars, tickVars, popupVars>>

laterVars == <<todoVars, markVars, blameVars, diffVars, optVars, moreVars>>

vars == <<jobVars, rebaseVars, walkVars, laterVars>>

(***************************************************************************)
(* Bounds                                                                  *)
(***************************************************************************)
\* calls of add_commit_msg in one run
MaxMsgs == 22

\* lines of a file diff
MaxDiffLines == 3

\* characters of the needle typed in the search of the diff view
MaxDiffNeedle == 1

\* the largest number typed as a prefix of a movement or of a copy
MaxStride == 12

\* lines of the blamed file, characters in a line, characters in a needle
MaxBlameLines == 2

MaxLineChars == 2

MaxNeedle == 2

\* commits in the log the commit list shows
MaxLog == 4

\* items the commit list holds loaded at a time
BatchSize == 2

\* lines in the todo file git hands to the mutator
MaxTodoLines == 3

\* items (words, blanks, quotes) in a todo line given to the parser
MaxLineLen == 6

\* external commands the user submits in one run of the application
MaxJobs == 3

\* commits in the repository the log walker walks
MaxCommits == 3

(***************************************************************************)
(* Dynamic job queue: src/async_jobs.rs                                    *)
(***************************************************************************)
None == 0

NoJob == [id |-> 0, stop |-> FALSE]

\* AsyncJobExternCmd, the one job the components submit
ExternCmdJob(n) == [id |-> n, stop |-> FALSE]

\* AsyncStopJob, the sentinel
AsyncStopJob(n) == [id |-> n, stop |-> TRUE]

\* AsyncDynJob::run: the sentinel yields None, an external command Some(result)
run(j) == IF j.stop THEN None ELSE j.id

should_stop_never(j) == FALSE

\* AsyncDynJob::should_stop
should_stop(j) == j.stop

RecvNewest(q) == [job |-> q[Len(q)], rest |-> SubSeq(q, 1, Len(q) - 1)]

\* mpsc::Receiver::recv on a non-empty channel: the oldest value
Recv(q) == [job |-> Head(q), rest |-> Tail(q)]

JobsInit ==
    /\ jobs = <<>>
    /\ feedback = <<>>
    /\ rx_app = 0
    /\ wpc = "recv"
    /\ cur = NoJob
    /\ res = None
    /\ upc = "select"
    /\ event = "None"
    /\ first_update = TRUE
    /\ app = [visited |-> <<>>, quit |-> FALSE]
    /\ alive = TRUE
    /\ sent = <<>>
    /\ started = <<>>
    /\ returned = <<>>
    /\ fbSent = <<>>
    /\ notified = <<>>
    /\ snap = <<>>

\* run_loop: receiver.recv(); Err (no sender left, nothing queued) ends the loop
WRecv ==
    /\ wpc = "recv"
    /\ \/ /\ jobs # <<>>
          /\ cur' = Recv(jobs).job
          /\ jobs' = Recv(jobs).rest
          /\ started' = Append(started, Recv(jobs).job.id)
          /\ wpc' = "run"
       \/ /\ jobs = <<>>
          /\ ~alive
          /\ wpc' = "exit"
          /\ UNCHANGED <<cur, jobs, started>>
    /\ UNCHANGED <<feedback, rx_app, res, upc, event, first_update, app, alive,
                   sent, returned, fbSent, notified, snap>>

\* run_loop: j.run(sender.clone()) returns
WRun ==
    /\ wpc = "run"
    /\ res' = run(cur)
    /\ returned' = Append(returned, cur.id)
    /\ wpc' = "send"
    /\ UNCHANGED <<jobs, feedback, rx_app, cur, upc, event, first_update, app,
                   alive, sent, started, fbSent, notified, snap>>

\* run_loop: if let Some(r) = .. { if sender.send(r) is Err { break } }
WSend ==
    /\ wpc = "send"
    /\ IF res = None
       THEN /\ wpc' = "notify"
            /\ UNCHANGED <<feedback, fbSent>>
       ELSE IF alive
       THEN /\ feedback' = Append(feedback, res)
            /\ fbSent' = Append(fbSent, res)
            /\ wpc' = "notify"
       ELSE /\ wpc' = "exit"
            /\ UNCHANGED <<feedback, fbSent>>
    /\ UNCHANGED <<jobs, rx_app, cur, res, upc, event, first_update, app, alive,
                   sent, started, returned, notified, snap>>

WNotifySkip ==
    /\ wpc = "notify"
    /\ wpc' = IF ~alive \/ should_stop(cur) THEN "exit" ELSE "recv"
    /\ UNCHANGED <<jobs, feedback, rx_app, cur, res, upc, event, first_update,
                   app, alive, sent, started, returned, fbSent, notified, snap>>

\* run_loop: tx_app.send(Notify), Err breaks; then if j.should_stop() { break }
WNotify ==
    /\ wpc = "notify"
    /\ IF alive
       THEN /\ rx_app' = rx_app + 1
            /\ notified' = Append(notified, cur.id)
            /\ wpc' = IF should_stop(cur) THEN "exit" ELSE "recv"
       ELSE /\ wpc' = "exit"
            /\ UNCHANGED <<rx_app, notified>>
    /\ UNCHANGED <<jobs, feedback, cur, res, upc, event, first_update, app,
                   alive, sent, started, returned, fbSent, snap>>

WorkerNext == WRecv \/ WRun \/ WSend \/ WNotify

(***************************************************************************)
(* UI event loop: src/main.rs, run_app and select_event                    *)
(***************************************************************************)
\* what select_event can return (index 3 and 4 both map to Notify)
QueueEvents == {"InputEvent", "AsyncGit", "AsyncApp", "Notify", "SpinnerUpdate"}

\* what an input event makes App do, as far as the job queue is concerned:
\* nothing, run_command_ui (external_command_popup.rs), or set the quit flag
Inputs == {"key", "run_command", "quit"}

UILoopVarsUnchanged == UNCHANGED <<wpc, cur, res, started, returned, fbSent, notified>>

\* the loop's first iteration: first_update yields QueueEvent::Notify unselected
UIFirst ==
    /\ upc = "select"
    /\ first_update
    /\ first_update' = FALSE
    /\ event' = "Notify"
    /\ upc' = "drain"
    /\ snap' = feedback
    /\ UNCHANGED <<jobs, feedback, rx_app, app, alive, sent>>
    /\ UILoopVarsUnchanged

\* select_event returns the notification a worker sent on tx_app
UISelectApp ==
    /\ upc = "select"
    /\ ~first_update
    /\ rx_app > 0
    /\ rx_app' = rx_app - 1
    /\ event' = "AsyncApp"
    /\ upc' = "drain"
    /\ snap' = feedback
    /\ UNCHANGED <<jobs, feedback, first_update, app, alive, sent>>
    /\ UILoopVarsUnchanged

\* select_event returns an event of another source: input, git, ticker,
\* watcher, spinner
UISelectOther ==
    /\ upc = "select"
    /\ ~first_update
    /\ \E ev \in QueueEvents \ {"AsyncApp"} : event' = ev
    /\ upc' = "drain"
    /\ snap' = feedback
    /\ UNCHANGED <<jobs, feedback, rx_app, first_update, app, alive, sent>>
    /\ UILoopVarsUnchanged

UIDrainOnce ==
    /\ upc = "drain"
    /\ feedback # <<>>
    /\ app' = [app EXCEPT !.visited = Append(@, Head(feedback))]
    /\ feedback' = Tail(feedback)
    /\ upc' = "handle"
    /\ UNCHANGED <<jobs, rx_app, event, first_update, alive, sent, snap>>
    /\ UILoopVarsUnchanged

\* while let Ok(mut job_feedback) = dyn_jobs_feedback.recv_timeout(0)
\*     { job_feedback.visit(&mut app) }
UIDrain ==
    /\ upc = "drain"
    /\ feedback # <<>>
    /\ app' = [app EXCEPT !.visited = Append(@, Head(feedback))]
    /\ feedback' = Tail(feedback)
    /\ UNCHANGED <<jobs, rx_app, upc, event, first_update, alive, sent, snap>>
    /\ UILoopVarsUnchanged

\* recv_timeout(0) finds the channel empty: the while loop ends
UIDrainDone ==
    /\ upc = "drain"
    /\ feedback = <<>>
    /\ upc' = "handle"
    /\ UNCHANGED <<jobs, feedback, rx_app, event, first_update, app, alive,
                   sent, snap>>
    /\ UILoopVarsUnchanged

\* ExternalCommandPopupComponent::run_command_ui: send a boxed AsyncJobExternCmd
run_command_ui ==
    /\ Len(sent) < MaxJobs
    /\ jobs' = Append(jobs, ExternCmdJob(Len(sent) + 1))
    /\ sent' = Append(sent, ExternCmdJob(Len(sent) + 1))

\* the rest of the iteration: the spinner tick continues the loop; any other
\* event is handled by App, the application is drawn and is_quit() is tested
UIHandle ==
    /\ upc = "handle"
    /\ \/ /\ event = "SpinnerUpdate"
          /\ upc' = "select"
          /\ UNCHANGED <<jobs, sent, app>>
       \/ /\ event = "InputEvent"
          /\ \E inp \in Inputs :
                \/ /\ inp = "key"
                   /\ upc' = "select"
                   /\ UNCHANGED <<jobs, sent, app>>
                \/ /\ inp = "run_command"
                   /\ run_command_ui
                   /\ upc' = "select"
                   /\ UNCHANGED app
                \/ /\ inp = "quit"
                   /\ app' = [app EXCEPT !.quit = TRUE]
                   /\ upc' = "shutdown"
                   /\ UNCHANGED <<jobs, sent>>
       \/ /\ event \in {"Notify", "AsyncGit", "AsyncApp"}
          /\ upc' = "select"
          /\ UNCHANGED <<jobs, sent, app>>
    /\ UNCHANGED <<feedback, rx_app, event, first_update, alive, snap>>
    /\ UILoopVarsUnchanged

\* after the loop: dyn_jobs_send.send(Box::new(AsyncStopJob {}))
UIShutdown ==
    /\ upc = "shutdown"
    /\ jobs' = Append(jobs, AsyncStopJob(Len(sent) + 1))
    /\ sent' = Append(sent, AsyncStopJob(Len(sent) + 1))
    /\ upc' = "join"
    /\ UNCHANGED <<feedback, rx_app, event, first_update, app, alive, snap>>
    /\ UILoopVarsUnchanged

\* dyn_jobs_thread.join() returns once the worker has left run_loop; run_app
\* returns and its channel ends are dropped
UIJoin ==
    /\ upc = "join"
    /\ wpc = "exit"
    /\ upc' = "returned"
    /\ alive' = FALSE
    /\ UNCHANGED <<jobs, feedback, rx_app, event, first_update, app, sent, snap>>
    /\ UILoopVarsUnchanged

\* a `?` in the loop (select_event, spinner.draw, app.event, app.update,
\* draw ..) returns the error from run_app: no sentinel is sent, nothing is
\* joined, and the channel ends are dropped
UIFail ==
    /\ \/ upc = "select" /\ ~first_update
       \/ upc = "handle"
    /\ upc' = "failed"
    /\ alive' = FALSE
    /\ UNCHANGED <<jobs, feedback, rx_app, event, first_update, app, sent, snap>>
    /\ UILoopVarsUnchanged

UINext ==
    \/ UIFirst \/ UISelectApp \/ UISelectOther
    \/ UIDrain \/ UIDrainDone \/ UIHandle
    \/ UIShutdown \/ UIJoin \/ UIFail

JobsNext ==
    /\ \/ WRecv \/ WRun \/ WSend \/ WNotify
       \/ UIFirst \/ UISelectApp \/ UISelectOther
       \/ UIDrain \/ UIDrainDone \/ UIHandle
       \/ UIShutdown \/ UIJoin \/ UIFail
    /\ UNCHANGED rebaseVars
    /\ UNCHANGED walkVars
    /\ UNCHANGED laterVars

\* The worker is a thread of its own and the steps of the UI loop that do not
\* wait for anything always complete.  Of select_event only the return on a
\* pending worker notification is assumed: no other event source is relied on.
\* These steps change the variables of this part only.
JobsFairness ==
    /\ WF_jobVars(WorkerNext)
    /\ WF_jobVars(UIFirst)
    /\ WF_jobVars(UISelectApp)
    /\ WF_jobVars(UIDrain)
    /\ WF_jobVars(UIDrainDone)
    /\ WF_jobVars(UIHandle)
    /\ WF_jobVars(UIShutdown)
    /\ WF_jobVars(UIJoin)

(***************************************************************************)
(* Interactive rebase: asyncgit/src/sync/extern_git.rs, src/main.rs        *)
(* (dummy_mode) and its caller src/components/commitlist.rs                *)
(***************************************************************************)
\* IPCEvents::SHMEM_SIZE
SHMEM_SIZE == 4096

\* std::mem::size_of::<usize>()
SizeOfUsize == 8

\* the size raw_sync reports for one event object; it depends on the platform
EventSizes == {16, 64}

\* A string is modelled by its length in bytes and by which text its bytes
\* are; bytes 0 are the zero bytes of a fresh mapping.
Str(len, bytes) == [len |-> len, bytes |-> bytes]

\* todo-file paths git may pass on the editor's command line
Paths == {Str(42, 1), Str(4000, 2), Str(4090, 3)}

RebaseInit ==
    /\ local_queue = <<>>
    /\ queue = <<>>
    /\ rthread = "none"
    /\ rpc = "idle"
    /\ rresult = "none"
    /\ script = "absent"
    /\ shm = [linked |-> FALSE, ready |-> FALSE, shutdown |-> FALSE,
              str_len |-> 0, str_bytes |-> 0, str_offset |-> 0]
    /\ gpc = "none"
    /\ cpc = "none"
    /\ file_path = Str(0, 0)
    /\ todo_file = Str(0, 0)
    /\ todo = "original"
    /\ git_todo = "none"
    /\ rhist = <<>>

\* ---- the UI thread: the commit list inside the event loop

\* what an input event does to the commit list: nothing, or the confirm
\* popup routes "drop" or "fixup" into the local queue
ConfirmInputs == {"key", "drop", "fixup"}

UIRebaseFrame ==
    UNCHANGED <<jobs, feedback, rx_app, wpc, cur, res, event, first_update, app,
                alive, sent, started, returned, fbSent, notified, snap, walkVars,
                laterVars>>

\* CommitList::process_local_queue (through drop_marked / fixup_marked,
\* rebase_drop_commits / rebase_fixup_commits): the calling thread enters
\* rebase_interactive and stays in it until it returns
process_local_queue ==
    IF local_queue # <<>>
    THEN /\ local_queue' = Tail(local_queue)
         /\ rthread' = "ui"
         /\ rpc' = "create"
         /\ rhist' = Append(rhist, Head(local_queue))
         /\ upc' = "update"
    ELSE /\ upc' = "select"
         /\ UNCHANGED <<local_queue, rthread, rpc, rhist>>

\* RevlogExtern::update, called by App on the UI thread: main_log.update()
RevlogExtern_update == process_local_queue

\* run_app's match on the event, as far as the commit list is concerned
UIHandleCommitList ==
    /\ upc = "handle"
    /\ \/ /\ event = "InputEvent"
          /\ \E inp \in ConfirmInputs :
                IF inp = "key" \/ rhist # <<>> \/ local_queue # <<>>
                THEN UNCHANGED local_queue
                ELSE local_queue' = Append(local_queue, inp)
          /\ upc' = "select"
          /\ UNCHANGED <<rthread, rpc, rhist>>
       \/ /\ event \in {"Notify", "AsyncGit"}
          /\ RevlogExtern_update
       \/ /\ event \in {"Notify", "AsyncGit", "AsyncApp", "SpinnerUpdate"}
          /\ upc' = "select"
          /\ UNCHANGED <<local_queue, rthread, rpc, rhist>>
    /\ UNCHANGED <<queue, rresult, script, shm, gpc, cpc, file_path, todo_file,
                   todo, git_todo>>
    /\ UIRebaseFrame

\* drop_marked / fixup_marked after rebase_*_commits returned: an error is
\* queued as ShowErrorMsg, and Update(ALL) is queued in either case
drop_marked_return ==
    /\ upc = "update"
    /\ rpc = "returned"
    /\ queue' = queue \o (IF rresult = "Ok" THEN <<>> ELSE <<"ShowErrorMsg">>)
                      \o <<"Update">>
    /\ upc' = "select"
    /\ UNCHANGED <<local_queue, rthread, rpc, rresult, script, shm, gpc, cpc,
                   file_path, todo_file, todo, git_todo, rhist>>
    /\ UIRebaseFrame

\* ---- rebase_interactive

RebaseFrame ==
    UNCHANGED <<jobVars, walkVars, laterVars, local_queue, queue, rthread>>

DropTempEditorKeep == script

\* Drop for TempEditor: remove_file on the script's path
DropTempEditor == "absent"

\* the release of the owner's mapping without the signal
DropIPCEventsSilent == [shm EXCEPT !.linked = FALSE]

\* Drop for IPCEvents: signal_connected_shutdown, then the owner's mapping is
\* released, which removes the name gitui_<pid>
DropIPCEvents == [shm EXCEPT !.shutdown = TRUE, !.linked = FALSE]

\* An Err leaves rebase_interactive through `?`: the locals are dropped in
\* reverse order (the child handle, events if `events` exists, the script)
ReturnErr(e, events) ==
    /\ rpc' = "returned"
    /\ rresult' = e
    /\ shm' = IF events THEN DropIPCEvents ELSE shm
    /\ script' = DropTempEditor
    /\ rhist' = rhist \o (IF events THEN <<"signal_shutdown">> ELSE <<>>)
                      \o <<"return">>

\* sequence_editor.create()?
TempEditor_create ==
    /\ rpc = "create"
    /\ \/ /\ script' = "present"
          /\ rpc' = "main"
          /\ UNCHANGED <<rresult, shm, rhist>>
       \/ ReturnErr("CreateFailed", FALSE)
    /\ UNCHANGED <<gpc, cpc, file_path, todo_file, todo, git_todo>>
    /\ RebaseFrame

\* IPCEvents::main(&event_id)?: a fresh region with both events unsignaled
IPCEvents_main ==
    /\ rpc = "main"
    /\ \/ /\ \E sz \in EventSizes :
                shm' = [linked |-> TRUE, ready |-> FALSE, shutdown |-> FALSE,
                        str_len |-> 0, str_bytes |-> 0, str_offset |-> sz + sz]
          /\ rpc' = "spawn"
          /\ UNCHANGED <<rresult, script, rhist>>
       \/ ReturnErr("ShmemFailed", FALSE)
    /\ UNCHANGED <<gpc, cpc, file_path, todo_file, todo, git_todo>>
    /\ RebaseFrame

\* cmd.spawn()?: git -c sequence.editor='<script>' .. rebase -i <base>
spawn ==
    /\ rpc = "spawn"
    /\ \/ /\ gpc' = "launch"
          /\ rpc' = "wait_ready"
          /\ rhist' = Append(rhist, "spawn")
          /\ UNCHANGED <<rresult, script, shm>>
       \/ /\ ReturnErr("SpawnFailed", TRUE)
          /\ UNCHANGED gpc
    /\ UNCHANGED <<cpc, file_path, todo_file, todo, git_todo>>
    /\ RebaseFrame

wait_connected_ready_ignored ==
    /\ rpc = "wait_ready"
    /\ shm' = [shm EXCEPT !.ready = FALSE]
    /\ rpc' = "get_str"
    /\ rhist' = Append(rhist, "ready_ok")
    /\ UNCHANGED <<rresult, script>>
    /\ UNCHANGED <<gpc, cpc, file_path, todo_file, todo, git_todo>>
    /\ RebaseFrame

\* events.wait_connected_ready()?: Ok when the auto-reset event is signaled,
\* "Waiting for a sequence editor to start failed with .." after 5000 ms
wait_connected_ready ==
    /\ rpc = "wait_ready"
    /\ IF shm.ready
       THEN /\ shm' = [shm EXCEPT !.ready = FALSE]
            /\ rpc' = "get_str"
            /\ rhist' = Append(rhist, "ready_ok")
            /\ UNCHANGED <<rresult, script>>
       ELSE ReturnErr("WaitReadyFailed", TRUE)
    /\ UNCHANGED <<gpc, cpc, file_path, todo_file, todo, git_todo>>
    /\ RebaseFrame

\* IPCEvents::get_str: the length, then that many bytes after it
get_str == Str(shm.str_len, IF shm.str_len = 0 THEN 0 ELSE shm.str_bytes)

\* let todo_file = events.get_str()
read_todo_path ==
    /\ rpc = "get_str"
    /\ todo_file' = get_str
    /\ rpc' = "mutate"
    /\ rhist' = Append(rhist, "get_str")
    /\ UNCHANGED <<rresult, script, shm, gpc, cpc, file_path, todo, git_todo>>
    /\ RebaseFrame

\* f(&todo_file)?: the mutator parses and rewrites the file at that path; it
\* fails when the file cannot be read or written
mutate_todo ==
    /\ rpc = "mutate"
    /\ \/ /\ todo_file = file_path
          /\ todo' = "mutated"
          /\ rpc' = "signal"
          /\ rhist' = Append(rhist, "mutator_ok")
          /\ UNCHANGED <<rresult, script, shm>>
       \/ /\ ReturnErr("MutatorFailed", TRUE)
          /\ UNCHANGED todo
    /\ UNCHANGED <<gpc, cpc, file_path, todo_file, git_todo>>
    /\ RebaseFrame

\* events.signal_connected_shutdown()?
signal_connected_shutdown ==
    /\ rpc = "signal"
    /\ shm' = [shm EXCEPT !.shutdown = TRUE]
    /\ rpc' = "wait_child"
    /\ rhist' = Append(rhist, "signal_shutdown")
    /\ UNCHANGED <<rresult, script, gpc, cpc, file_path, todo_file, todo, git_todo>>
    /\ RebaseFrame

child_wait_skipped ==
    /\ rpc = "wait_child"
    /\ rpc' = "returned"
    /\ rresult' = "Ok"
    /\ shm' = DropIPCEvents
    /\ script' = DropTempEditor
    /\ rhist' = rhist \o <<"signal_shutdown", "return">>
    /\ UNCHANGED <<gpc, cpc, file_path, todo_file, todo, git_todo>>
    /\ RebaseFrame

\* child.wait()?; drop(terminal_state); Ok(()): returns once git has exited,
\* and the locals are dropped
child_wait ==
    /\ rpc = "wait_child"
    /\ gpc \in {"exited_ok", "exited_err"}
    /\ rpc' = "returned"
    /\ rresult' = "Ok"
    /\ shm' = DropIPCEvents
    /\ script' = DropTempEditor
    /\ rhist' = rhist \o <<"signal_shutdown", "return">>
    /\ UNCHANGED <<gpc, cpc, file_path, todo_file, todo, git_todo>>
    /\ RebaseFrame

ParentNext ==
    \/ TempEditor_create \/ IPCEvents_main \/ spawn \/ wait_connected_ready
    \/ read_todo_path \/ mutate_todo \/ signal_connected_shutdown \/ child_wait

\* ---- the spawned git process

\* git writes its todo file and runs the sequence editor on it; with the
\* script gone the editor cannot be run and git gives the rebase up
git_run_editor ==
    /\ gpc = "launch"
    /\ IF script = "present"
       THEN /\ \E p \in Paths : file_path' = p
            /\ gpc' = "editor"
            /\ cpc' = "start"
            /\ UNCHANGED rhist
       ELSE /\ gpc' = "exited_err"
            /\ rhist' = Append(rhist, "git_exit")
            /\ UNCHANGED <<cpc, file_path>>
    /\ UNCHANGED <<rpc, rresult, script, shm, todo_file, todo, git_todo>>
    /\ RebaseFrame

\* the editor has exited: with status 0 git reads the todo file, otherwise
\* it gives the rebase up
git_editor_exited ==
    /\ gpc = "editor"
    /\ cpc \in {"exit_ok", "exit_err"}
    /\ IF cpc = "exit_ok"
       THEN /\ git_todo' = todo
            /\ gpc' = "rebasing"
            /\ rhist' = Append(rhist, "git_read")
       ELSE /\ gpc' = "exited_err"
            /\ rhist' = Append(rhist, "git_exit")
            /\ UNCHANGED git_todo
    /\ UNCHANGED <<rpc, rresult, script, shm, cpc, file_path, todo_file, todo>>
    /\ RebaseFrame

\* git has carried out the todo it read and exits
git_exit ==
    /\ gpc = "rebasing"
    /\ gpc' = "exited_ok"
    /\ rhist' = Append(rhist, "git_exit")
    /\ UNCHANGED <<rpc, rresult, script, shm, cpc, file_path, todo_file, todo,
                   git_todo>>
    /\ RebaseFrame

GitNext == git_run_editor \/ git_editor_exited \/ git_exit

\* ---- the sequence-editor child: dummy_mode

ChildFrame ==
    UNCHANGED <<rpc, rresult, script, gpc, file_path, todo_file, todo, git_todo>>

\* IPCEvents::connected(&event_id)?: open the region by its name
IPCEvents_connected ==
    /\ cpc = "start"
    /\ cpc' = IF shm.linked THEN "set_str" ELSE "exit_err"
    /\ UNCHANGED <<shm, rhist>>
    /\ ChildFrame
    /\ RebaseFrame

\* set_str, first half: the size check and *str_len = s.len(); an Err
\* returns from dummy_mode, whose IPCEvents signals shutdown when dropped
set_str_len ==
    /\ cpc = "set_str"
    /\ IF file_path.len > SHMEM_SIZE - shm.str_offset - SizeOfUsize
       THEN /\ shm' = [shm EXCEPT !.shutdown = TRUE]
            /\ cpc' = "exit_err"
       ELSE /\ shm' = [shm EXCEPT !.str_len = file_path.len]
            /\ cpc' = "set_bytes"
    /\ UNCHANGED rhist
    /\ ChildFrame
    /\ RebaseFrame

\* set_str, second half: str_bytes.clone_from_slice(s.as_bytes())
set_str_bytes ==
    /\ cpc = "set_bytes"
    /\ shm' = [shm EXCEPT !.str_bytes = file_path.bytes]
    /\ cpc' = "signal_ready"
    /\ rhist' = Append(rhist, "set_str")
    /\ ChildFrame
    /\ RebaseFrame

\* events.signal_connected_ready()?
signal_connected_ready ==
    /\ cpc = "signal_ready"
    /\ shm' = [shm EXCEPT !.ready = TRUE]
    /\ cpc' = "wait_shutdown"
    /\ rhist' = Append(rhist, "signal_ready")
    /\ ChildFrame
    /\ RebaseFrame

wait_shutdown_ignored ==
    /\ cpc = "wait_shutdown"
    /\ shm' = [shm EXCEPT !.shutdown = TRUE]
    /\ cpc' = "exit_ok"
    /\ rhist' = Append(rhist, "left_wait")
    /\ ChildFrame
    /\ RebaseFrame

\* events.wait_shutdown()?; Ok(()): the wait returns when the auto-reset event
\* is signaled; dummy_mode returns and its IPCEvents, dropped, signals again
wait_shutdown ==
    /\ cpc = "wait_shutdown"
    /\ shm.shutdown
    /\ shm' = [shm EXCEPT !.shutdown = TRUE]
    /\ cpc' = "exit_ok"
    /\ rhist' = Append(rhist, "left_wait")
    /\ ChildFrame
    /\ RebaseFrame

ChildNext ==
    \/ IPCEvents_connected \/ set_str_len \/ set_str_bytes
    \/ signal_connected_ready \/ wait_shutdown

RebaseNext ==
    \/ /\ UIFirst \/ UISelectOther \/ UIDrainDone
       /\ UNCHANGED rebaseVars
       /\ UNCHANGED walkVars
       /\ UNCHANGED laterVars
    \/ UIHandleCommitList \/ drop_marked_return
    \/ TempEditor_create \/ IPCEvents_main \/ spawn \/ wait_connected_ready
    \/ read_todo_path \/ mutate_todo \/ signal_connected_shutdown \/ child_wait
    \/ git_run_editor \/ git_editor_exited \/ git_exit
    \/ IPCEvents_connected \/ set_str_len \/ set_str_bytes
    \/ signal_connected_ready \/ wait_shutdown

\* rebase_interactive runs on a thread of the application, git and the
\* editor are processes of their own: each takes the steps it can take
RebaseFairness ==
    /\ WF_vars(ParentNext)
    /\ WF_vars(GitNext)
    /\ WF_vars(ChildNext)

(***************************************************************************)
(* Log walker: asyncgit/src/sync/logwalker.rs                              *)
(***************************************************************************)
\* the elements of a sequence
Range(s) == {s[i] : i \in 1..Len(s)}

Commits == 1..MaxCommits

\* commit times; two values give equal times and clock skew alike
Times == {1, 2}

\* A repository: a commit's parents are older commits (lower numbers), its
\* time is any; HEAD is the last commit.
Repos ==
    {[parents |-> ps, time |-> tm] :
        ps \in {f \in [Commits -> SUBSET Commits] :
                   \A c \in Commits : \A q \in f[c] : q < c},
        tm \in [Commits -> Times]}

HeadCommit == MaxCommits

\* Option<LogWalkerFilter>: None, or a predicate given by the commits it
\* answers Ok(true) for
NoFilter == [some |-> FALSE, accept |-> {}, skip_merges |-> FALSE]

SomeFilter(S) == [some |-> TRUE, accept |-> S, skip_merges |-> FALSE]

filter_by_path_keep_merges(r, T, skip_merge) ==
    [some |-> TRUE, accept |-> T, skip_merges |-> skip_merge]

\* filter_by_path(path, skip_merge) in the repository r, T the commits whose
\* diff under path has deltas: false for a merge when skip_merge, otherwise
\* whether the diff has deltas
filter_by_path(r, T, skip_merge) ==
    [some |-> TRUE,
     accept |-> {c \in T : ~(skip_merge /\ Cardinality(r.parents[c]) > 1)},
     skip_merges |-> skip_merge]

\* the filters a caller passes: any predicate, or filter_by_path
Filters ==
    {SomeFilter(S) : S \in SUBSET Commits}
        \cup {filter_by_path(repo, T, sm) : T \in SUBSET Commits, sm \in BOOLEAN}

\* the commits reachable from c, c included
RECURSIVE Reach(_, _)
Reach(r, S) ==
    LET more == S \cup UNION {r.parents[c] : c \in S}
    IN  IF more = S THEN S ELSE Reach(r, more)

\* BinaryHeap::push; the heap is kept as a list ordered by commit number, so
\* that a commit pushed twice is in it twice
RECURSIVE push(_, _)
push(h, c) ==
    IF h = <<>> THEN <<c>>
    ELSE IF c <= Head(h) THEN <<c>> \o h
    ELSE <<Head(h)>> \o push(Tail(h), c)

\* BinaryHeap::pop takes a greatest element by TimeOrderedCommit's Ord, the
\* commit time; which one among equal times is not specified
Tops(h) == {i \in 1..Len(h) : \A j \in 1..Len(h) : repo.time[h[j]] <= repo.time[h[i]]}

RemoveAt(h, i) == SubSeq(h, 1, i - 1) \o SubSeq(h, i + 1, Len(h))

visit_unchecked(w, c) ==
    [w EXCEPT !.visited = @ \cup {c}, !.commits = push(@, c)]

\* LogWalker::visit
visit(w, c) ==
    IF c \notin w.visited
    THEN [w EXCEPT !.visited = @ \cup {c}, !.commits = push(@, c)]
    ELSE w

\* for p in c.0.parents() { self.visit(p) }
RECURSIVE visit_parents(_, _)
visit_parents(w, ps) ==
    IF ps = {} THEN w
    ELSE LET p == CHOOSE x \in ps : \A y \in ps : x <= y
         IN  visit_parents(visit(w, p), ps \ {p})

limit_reached_one_late(count, limit) == count = limit + 1

\* count == self.limit, tested after count += 1
limit_reached(count, limit) == count = limit

\* The loop of LogWalker::read from the state st (the walker, out, count,
\* filtered_count and the commits popped so far): the set of states in which
\* the loop can end, one for every choice pop can make.
RECURSIVE read_loop(_)
read_loop(st) ==
    IF st.w.commits = <<>> THEN {st}
    ELSE UNION {
        LET c    == st.w.commits[i]
            w0   == [st.w EXCEPT !.commits = RemoveAt(@, i)]
            w1   == visit_parents(w0, repo.parents[c])
            inc  == ~w1.filter.some \/ c \in w1.filter.accept
            out1 == IF inc THEN Append(st.out, c) ELSE st.out
            fc1  == IF inc THEN st.filtered_count + 1 ELSE st.filtered_count
            seen == Append(st.seen, c)
            brk  == [w |-> w1, out |-> out1, count |-> st.count,
                     filtered_count |-> fc1, seen |-> seen]
            nxt  == [brk EXCEPT !.count = st.count + 1]
        IN  IF inc /\ fc1 = w1.filtered_limit THEN {brk}
            ELSE IF limit_reached(nxt.count, w1.limit) THEN {nxt}
            ELSE IF w1.stopper.some /\ c \in w1.stopper.accept THEN {nxt}
            ELSE read_loop(nxt)
        : i \in Tops(st.w.commits)}

WalkInit ==
    /\ repo \in Repos
    /\ lpc = "none"
    /\ walker = [commits |-> <<>>, visited |-> {}, limit |-> 0,
                 filter |-> NoFilter, stopper |-> NoFilter, filtered_limit |-> 0]
    /\ out = <<>>
    /\ ret = [ok |-> TRUE, count |-> 0]
    /\ examined = <<>>
    /\ last = [seen |-> <<>>, appended |-> <<>>, heap_empty |-> FALSE,
               fresh |-> FALSE]

\* in the specifications of the other parts no walker is made
WalkIdle ==
    /\ WalkInit
    /\ repo = [parents |-> [c \in Commits |-> {}], time |-> [c \in Commits |-> 1]]

WalkFrame == UNCHANGED <<jobVars, rebaseVars, laterVars, repo>>

\* LogWalker::new(repo, limit) = new_with_start(repo, None, limit): the heap
\* holds HEAD, nothing is visited, no filter, no stopper, filtered_limit 0
new_with_start ==
    /\ lpc = "none"
    /\ \E limit \in 0..(MaxCommits + 1) :
          walker' = [commits |-> <<HeadCommit>>, visited |-> {}, limit |-> limit,
                     filter |-> NoFilter, stopper |-> NoFilter,
                     filtered_limit |-> 0]
    /\ lpc' = "new"
    /\ UNCHANGED <<out, ret, examined, last>>
    /\ WalkFrame

\* LogWalker::filter(Some(f))
filter ==
    /\ lpc = "new"
    /\ \E f \in Filters : walker' = [walker EXCEPT !.filter = f]
    /\ lpc' = "configured"
    /\ UNCHANGED <<out, ret, examined, last>>
    /\ WalkFrame

\* LogWalker::filter_with_limit(Some(f), filtered_limit)
filter_with_limit ==
    /\ lpc = "new"
    /\ \E f \in Filters, k \in {1, 2} :
          walker' = [walker EXCEPT !.filter = f, !.filtered_limit = k]
    /\ lpc' = "configured"
    /\ UNCHANGED <<out, ret, examined, last>>
    /\ WalkFrame

\* LogWalker::stopper(Some(s))
stopper ==
    /\ lpc = "new"
    /\ \E c \in Commits : walker' = [walker EXCEPT !.stopper = SomeFilter({c})]
    /\ lpc' = "configured"
    /\ UNCHANGED <<out, ret, examined, last>>
    /\ WalkFrame

\* LogWalker::read(out)
read ==
    /\ lpc \in {"new", "configured", "read"}
    /\ \E r \in read_loop([w |-> walker, out |-> out, count |-> 0,
                           filtered_count |-> 0, seen |-> <<>>]) :
          /\ walker' = r.w
          /\ out' = r.out
          /\ ret' = [ok |-> TRUE, count |-> r.count]
          /\ examined' = examined \o r.seen
          /\ last' = [seen |-> r.seen,
                      appended |-> SubSeq(r.out, Len(out) + 1, Len(r.out)),
                      heap_empty |-> walker.commits = <<>>,
                      fresh |-> lpc # "read"]
    /\ lpc' = "read"
    /\ WalkFrame

\* LogWalker::read_eof(out): an error when nothing is left, read otherwise
read_eof ==
    IF walker.commits = <<>>
    THEN /\ lpc \in {"new", "configured", "read"}
         /\ ret' = [ok |-> FALSE, count |-> 0]
         /\ last' = [seen |-> <<>>, appended |-> <<>>, heap_empty |-> TRUE,
                     fresh |-> lpc # "read"]
         /\ lpc' = "read"
         /\ UNCHANGED <<walker, out, examined>>
         /\ WalkFrame
    ELSE read

WalkNext ==
    \/ new_with_start \/ filter \/ filter_with_limit \/ stopper
    \/ read \/ read_eof

(***************************************************************************)
(* Rebase todo lines: asyncgit/src/sync/extern_git.rs                      *)
(***************************************************************************)
\* A line is a sequence of items: a blank, a double quote, or a word (a
\* run of other characters).
WS == " "

Quote == "\""

Items == {WS, Quote, "pick", "p", "abc"}

Lines == UNION {[1..n -> Items] : n \in 0..MaxLineLen}

\* enum InteractiveOperation
InteractiveOperations ==
    {"Pick", "Reword", "Edit", "Squash", "Fixup", "Exec", "Break", "Drop",
     "Label", "Reset", "Merge", "UpdateRef"}

\* InteractiveOperation::to_string
op_to_string(op) ==
    CASE op = "Pick" -> "pick"     [] op = "Reword" -> "reword"
      [] op = "Edit" -> "edit"     [] op = "Squash" -> "squash"
      [] op = "Fixup" -> "fixup"   [] op = "Exec" -> "exec"
      [] op = "Break" -> "break"   [] op = "Drop" -> "drop"
      [] op = "Label" -> "label"   [] op = "Reset" -> "reset"
      [] op = "Merge" -> "merge"   [] op = "UpdateRef" -> "update-ref"

\* the one-letter forms InteractiveOperation::try_parse accepts
op_short(op) ==
    CASE op = "Pick" -> "p"    [] op = "Reword" -> "r"
      [] op = "Edit" -> "e"    [] op = "Squash" -> "s"
      [] op = "Fixup" -> "f"   [] op = "Exec" -> "x"
      [] op = "Break" -> "b"   [] op = "Drop" -> "d"
      [] op = "Label" -> "l"   [] op = "Reset" -> "t"
      [] op = "Merge" -> "m"   [] op = "UpdateRef" -> "u"

\* Result<RebaseCommit> and Result<InteractiveOperation>
ParseOk(op, hash, full_hash) ==
    [ok |-> TRUE, err |-> "", op |-> op, hash |-> hash, full_hash |-> full_hash]

ParseErr(e) ==
    [ok |-> FALSE, err |-> e, op |-> "", hash |-> <<>>, full_hash |-> <<>>]

\* InteractiveOperation::try_parse(w), w a token: a word is an operation
\* only if the token is that word and nothing else
InteractiveOperation_try_parse(w) ==
    IF Len(w) = 1 /\ \E op \in InteractiveOperations :
                        w[1] \in {op_to_string(op), op_short(op)}
    THEN ParseOk(CHOOSE op \in InteractiveOperations :
                     w[1] \in {op_to_string(op), op_short(op)}, <<>>, <<>>)
    ELSE ParseErr("Unknown operation")

\* str::split_ascii_whitespace: the maximal runs of items that are not blank
RECURSIVE split_ascii_whitespace(_)
split_ascii_whitespace(l) ==
    IF l = <<>> THEN <<>>
    ELSE IF Head(l) = WS THEN split_ascii_whitespace(Tail(l))
    ELSE LET ends == {i \in 1..Len(l) : l[i] = WS}
             n    == IF ends = {} THEN Len(l) + 1
                     ELSE CHOOSE i \in ends : \A j \in ends : i <= j
         IN  <<SubSeq(l, 1, n - 1)>>
                 \o split_ascii_whitespace(SubSeq(l, n, Len(l)))

RECURSIVE trim_start_matches(_)
trim_start_matches(h) ==
    IF h # <<>> /\ Head(h) = Quote THEN trim_start_matches(Tail(h)) ELSE h

RECURSIVE trim_end_matches(_)
trim_end_matches(h) ==
    IF h # <<>> /\ h[Len(h)] = Quote
    THEN trim_end_matches(SubSeq(h, 1, Len(h) - 1))
    ELSE h

\* h.trim_matches('"')
trim_matches(h) == trim_end_matches(trim_start_matches(h))

\* RebaseCommit::try_parse
RebaseCommit_try_parse(l) ==
    LET i  == split_ascii_whitespace(l)
        op == IF Len(i) >= 1 THEN InteractiveOperation_try_parse(i[1])
              ELSE ParseErr("no op")
    IN  IF ~op.ok THEN op
        ELSE IF Len(i) < 2 THEN ParseErr("no short hash")
        ELSE IF Len(i) < 3 THEN ParseErr("no full hash")
        ELSE ParseOk(op.op, i[2], trim_matches(i[3]))

\* RebaseCommit::to_string
RebaseCommit_to_string(c) ==
    <<op_to_string(c.op), WS>> \o c.hash \o <<WS, Quote>> \o c.full_hash
        \o <<Quote>>

\* lines git or a user may have put in the todo file: picks in the long and
\* the one-letter form, with quoted and bare full hashes, another operation,
\* a comment, an empty line and a line without a full hash
TodoLinePool ==
    {<<"pick", WS, "abc", WS, Quote, "abc", Quote>>,
     <<"p", WS, "def", WS, "def">>,
     <<"reword", WS, "def", WS, Quote, "def", Quote>>,
     <<"#", WS, "abc", WS, "def">>,
     <<>>,
     <<"pick", WS, "abc">>}

TodoFiles == UNION {[1..n -> TodoLinePool] : n \in 0..MaxTodoLines}

\* the full hashes of the commits the caller marked
CommitHashSets == SUBSET {<<"abc">>, <<"def">>}

\* parse_rebase_todo: the lines that parse, parsed, in file order
RECURSIVE parse_rebase_todo(_)
parse_rebase_todo(f) ==
    IF f = <<>> THEN <<>>
    ELSE LET c == RebaseCommit_try_parse(Head(f))
         IN  (IF c.ok THEN <<c>> ELSE <<>>) \o parse_rebase_todo(Tail(f))

change_op_kept(c, op) == c

\* RebaseCommit::change_op
change_op(c, op) == [c EXCEPT !.op = op]

\* write_rebase_todo: one to_string() line per commit
write_rebase_todo(commits) ==
    [k \in 1..Len(commits) |-> RebaseCommit_to_string(commits[k])]

\* the closure rebase_drop_commits and rebase_fixup_commits pass to
\* rebase_interactive, op being Drop or Fixup
todo_mutator(f, hashes, op) ==
    LET parsed == parse_rebase_todo(f)
    IN  write_rebase_todo(
            [k \in 1..Len(parsed) |->
                IF parsed[k].full_hash \in hashes
                THEN change_op(parsed[k], op)
                ELSE parsed[k]])

TodoInit ==
    /\ ppc = "idle"
    /\ line = <<>>
    /\ rebase_commit = ParseErr("")
    /\ printed = <<>>
    /\ reparsed = ParseErr("")
    /\ todo_lines = <<>>
    /\ hashed_commits = {}
    /\ new_op = "Drop"
    /\ written = <<>>

TodoFrame == UNCHANGED <<jobVars, rebaseVars, walkVars, markVars, blameVars, diffVars,
                         optVars, moreVars>>

\* RebaseCommit::try_parse(l) for some line l
try_parse_line ==
    /\ ppc = "idle"
    /\ \E l \in Lines :
          /\ line' = l
          /\ rebase_commit' = RebaseCommit_try_parse(l)
    /\ ppc' = "parsed"
    /\ printed' = <<>>
    /\ reparsed' = ParseErr("")
    /\ UNCHANGED <<todo_lines, hashed_commits, new_op, written>>
    /\ TodoFrame

\* to_string() on the RebaseCommit parsed
to_string_commit ==
    /\ ppc = "parsed"
    /\ rebase_commit.ok
    /\ printed' = RebaseCommit_to_string(rebase_commit)
    /\ ppc' = "printed"
    /\ UNCHANGED <<line, rebase_commit, reparsed, todo_lines, hashed_commits,
                   new_op, written>>
    /\ TodoFrame

\* RebaseCommit::try_parse on that string
try_parse_printed ==
    /\ ppc = "printed"
    /\ reparsed' = RebaseCommit_try_parse(printed)
    /\ ppc' = "reparsed"
    /\ UNCHANGED <<line, rebase_commit, printed, todo_lines, hashed_commits,
                   new_op, written>>
    /\ TodoFrame

\* the mutator of rebase_drop_commits runs on the todo file git wrote
rebase_drop_commits_mutator ==
    /\ ppc = "idle"
    /\ \E f \in TodoFiles, hs \in CommitHashSets :
          /\ todo_lines' = f
          /\ hashed_commits' = hs
          /\ written' = todo_mutator(f, hs, "Drop")
    /\ new_op' = "Drop"
    /\ ppc' = "mutated"
    /\ UNCHANGED <<line, rebase_commit, printed, reparsed>>
    /\ TodoFrame

\* the mutator of rebase_fixup_commits
rebase_fixup_commits_mutator ==
    /\ ppc = "idle"
    /\ \E f \in TodoFiles, hs \in CommitHashSets :
          /\ todo_lines' = f
          /\ hashed_commits' = hs
          /\ written' = todo_mutator(f, hs, "Fixup")
    /\ new_op' = "Fixup"
    /\ ppc' = "mutated"
    /\ UNCHANGED <<line, rebase_commit, printed, reparsed>>
    /\ TodoFrame

TodoNext ==
    \/ try_parse_line \/ to_string_commit \/ try_parse_printed
    \/ rebase_drop_commits_mutator \/ rebase_fixup_commits_mutator

(***************************************************************************)
(* Commit list, marked commits: src/components/commitlist.rs               *)
(***************************************************************************)
\* The log is a single line of history: the commit at log position i (0 is
\* the newest) is named i, and its only parent is the commit below it.
count_total == MaxLog

\* CommitList::selection_max
selection_max == count_total - 1

\* asyncgit::sync::parent_ids(repo, c): none for the root commit
parent_ids(c) == IF c + 1 < count_total THEN <<c + 1>> ELSE <<>>

\* the items of a batch that starts at log position start
Batch(start) ==
    [k \in 1..(IF start + BatchSize <= count_total THEN BatchSize
               ELSE count_total - start) |-> start + k - 1]

\* a.saturating_sub(b)
saturating_sub(a, b) == IF a >= b THEN a - b ELSE 0

NoEntry == [some |-> FALSE, id |-> 0]

\* CommitList::selected_entry: items.iter().nth(selection - index_offset)
selected_entry ==
    LET n == saturating_sub(selection, index_offset)
    IN  IF n < Len(items) THEN [some |-> TRUE, id |-> items[n + 1]]
        ELSE NoEntry

\* CommitList::is_marked(id).unwrap_or_default()
is_marked(id) == \E k \in 1..Len(marked) : marked[k].id = id

\* Vec::sort_unstable_by on the index: the orders it may leave, equal
\* indexes in any order
sort_unstable_by_index(v) ==
    {t \in [1..Len(v) -> Range(v)] :
        /\ Range(t) = Range(v)
        /\ \A i, j \in 1..Len(v) : i < j => t[i].idx <= t[j].idx}

\* Vec::retain(|m| m.1 != id)
retain_other(v, id) == SelectSeq(v, LAMBDA m : m.id # id)

\* Iterator::max_by on the index: the last of the greatest elements
max_by_index(v) ==
    v[CHOOSE k \in 1..Len(v) :
        /\ \A j \in 1..Len(v) : v[j].idx <= v[k].idx
        /\ \A j \in (k + 1)..Len(v) : v[j].idx < v[k].idx]

\* no operation was confirmed in the last step
NothingHandled ==
    [op |-> "none", result |-> "none", base |-> <<>>, before |-> <<>>,
     attempted |-> <<>>, applied |-> <<>>]

MarkInit ==
    /\ mpc = "running"
    /\ index_offset = 0
    /\ items = Batch(0)
    /\ selection = 0
    /\ marked = <<>>
    /\ handled = NothingHandled
    /\ pushed = <<>>

\* a step that confirms nothing; the queue has been emptied by the application
NotConfirming == handled' = NothingHandled /\ pushed' = <<>>

MarkFrame == UNCHANGED <<jobVars, rebaseVars, walkVars, todoVars, blameVars, diffVars,
                         optVars, moreVars>>

\* CommitList::move_selection(Up | Down | Home | End), select_entry
move_selection ==
    /\ mpc = "running"
    /\ \E new \in {saturating_sub(selection, 1), selection + 1, 0, selection_max} :
          selection' = IF new <= selection_max THEN new ELSE selection_max
    /\ NotConfirming
    /\ UNCHANGED <<mpc, index_offset, items, marked>>
    /\ MarkFrame

\* A batch of the log is loaded, one that holds the selected commit:
\* ItemBatch::set_items(start, commits)
set_items ==
    /\ mpc = "running"
    /\ \E start \in 0..selection_max :
          /\ start <= selection /\ selection < start + BatchSize
          /\ index_offset' = start
          /\ items' = Batch(start)
    /\ NotConfirming
    /\ UNCHANGED <<mpc, selection, marked>>
    /\ MarkFrame

\* CommitList::mark
mark ==
    /\ mpc = "running"
    /\ LET e == selected_entry
           selected == saturating_sub(selection, index_offset)
       IN  IF ~e.some THEN marked' = marked
           ELSE IF is_marked(e.id) THEN marked' = retain_other(marked, e.id)
           ELSE marked' \in sort_unstable_by_index(
                                Append(marked, [idx |-> selected, id |-> e.id]))
    /\ NotConfirming
    /\ UNCHANGED <<mpc, index_offset, items, selection>>
    /\ MarkFrame

\* the exit_popup key in the list: the marks are cleared
clear_marked ==
    /\ mpc = "running"
    /\ marked # <<>>
    /\ marked' = <<>>
    /\ pushed' = <<"Update">>
    /\ handled' = NothingHandled
    /\ UNCHANGED <<mpc, index_offset, items, selection>>
    /\ MarkFrame

\* iter().rev()
RECURSIVE rev(_)
rev(v) == IF v = <<>> THEN <<>> ELSE Append(rev(Tail(v)), Head(v))

\* self.marked.iter().map(|i| &i.1)
marked_ids(v) == [k \in 1..Len(v) |-> v[k].id]

Handled(op, r, base, attempted, applied) ==
    [op |-> op, result |-> r, base |-> base, before |-> marked,
     attempted |-> attempted, applied |-> applied]

\* .unwrap()[0] on a commit without parents: the process panics
panic(op) ==
    /\ mpc' = "panicked"
    /\ handled' = Handled(op, "panic", <<>>, <<>>, <<>>)
    /\ pushed' = <<>>
    /\ UNCHANGED marked

\* drop_marked and fixup_marked after rebase_drop_commits or
\* rebase_fixup_commits has returned r
rebase_returned(op, r, base) ==
    /\ handled' = Handled(op, r, <<base>>, marked_ids(marked), <<>>)
    /\ marked' = IF r = "Ok" THEN <<>> ELSE marked
    /\ pushed' = IF r = "Err" THEN <<"ShowErrorMsg", "Update">> ELSE <<"Update">>
    /\ UNCHANGED mpc

\* LocalEvent::Confirmed("drop"): CommitList::drop_marked
drop_marked ==
    /\ mpc = "running"
    /\ marked # <<>>
    /\ LET oldest_commit == max_by_index(marked).id
           ps == parent_ids(oldest_commit)
       IN  IF ps = <<>> THEN panic("drop")
           ELSE \E r \in {"Ok", "Err"} : rebase_returned("drop", r, ps[1])
    /\ UNCHANGED <<index_offset, items, selection>>
    /\ MarkFrame

\* LocalEvent::Confirmed("fixup"): CommitList::fixup_marked
fixup_marked ==
    /\ mpc = "running"
    /\ marked # <<>>
    /\ LET oldest_commit == max_by_index(marked).id
           ps == parent_ids(oldest_commit)
       IN  IF ps = <<>> \/ parent_ids(ps[1]) = <<>> THEN panic("fixup")
           ELSE \E r \in {"Ok", "Err"} :
                    rebase_returned("fixup", r, parent_ids(ps[1])[1])
    /\ UNCHANGED <<index_offset, items, selection>>
    /\ MarkFrame

\* LocalEvent::Confirmed("cherrypick"): CommitList::cherrypick_marked; fail
\* is the place in the loop of the first cherrypick that fails, 0 for none
cherrypick_marked ==
    /\ mpc = "running"
    /\ marked # <<>>
    /\ \E fail \in 0..Len(marked) :
          LET todo_ids == rev(marked_ids(marked))
          IN  IF fail = 0
              THEN /\ handled' = Handled("cherrypick", "Ok", <<>>, todo_ids, todo_ids)
                   /\ marked' = <<>>
                   /\ pushed' = <<"Update">>
              ELSE /\ handled' = Handled("cherrypick", "Err", <<>>,
                                         SubSeq(todo_ids, 1, fail),
                                         SubSeq(todo_ids, 1, fail - 1))
                   /\ marked' = marked
                   /\ pushed' = <<"ShowErrorMsg", "Update">>
    /\ UNCHANGED <<mpc, index_offset, items, selection>>
    /\ MarkFrame

MarkNext ==
    \/ move_selection \/ set_items \/ mark \/ clear_marked
    \/ drop_marked \/ fixup_marked \/ cherrypick_marked

(***************************************************************************)
(* Blame view, search: src/components/blame_file.rs                        *)
(***************************************************************************)
\* The characters of lines and needles: "a" of one byte and "e", which
\* stands for a character of two bytes in UTF-8
Chars == {"a", "e"}

\* the second byte of a two-byte character
Continuation == "+"

Strings(n) == UNION {[1..k -> Chars] : k \in 0..n}

\* a String as its UTF-8 bytes
RECURSIVE utf8(_)
utf8(str) ==
    IF str = <<>> THEN <<>>
    ELSE (IF Head(str) = "e" THEN <<"e", Continuation>> ELSE <<Head(str)>>)
             \o utf8(Tail(str))

\* str::is_char_boundary(i), i a byte offset from 0
is_char_boundary(b, i) ==
    i = 0 \/ i = Len(b) \/ (i < Len(b) /\ b[i + 1] # Continuation)

\* the offsets at which sub occurs in the bytes b
Occurrences(b, sub) ==
    {o \in 0..(Len(b) - Len(sub)) : SubSeq(b, o + 1, o + Len(sub)) = sub}

\* str::find(sub): the first offset, -1 for None
find(b, sub) ==
    IF Occurrences(b, sub) = {} THEN -1
    ELSE CHOOSE o \in Occurrences(b, sub) : \A q \in Occurrences(b, sub) : o <= q

\* Option<LinePos> and LinePos
NoPos == [some |-> FALSE, line |-> 0, offset |-> 0]

LinePos(l, o) == [some |-> TRUE, line |-> l, offset |-> o]

\* the result of search_only: a panic, or an Option<LinePos>
SearchPanic == [panic |-> TRUE, pos |-> NoPos]

SearchResult(pos) == [panic |-> FALSE, pos |-> pos]

\* the i-th line of the file, i from 0, as bytes
LineBytes(ls, i) == utf8(ls[i + 1])

\* the first of the lines numbered from lo to hi that contains sub
first_line_with(ls, sub, lo, hi) ==
    LET hits == {i \in lo..hi : find(LineBytes(ls, i), sub) >= 0}
    IN  IF hits = {} THEN NoPos
        ELSE LET i == CHOOSE i \in hits : \A j \in hits : i <= j
             IN  LinePos(i, find(LineBytes(ls, i), sub))

\* BlameFileComponent::search_only
search_only(ls, sr) ==
    LET substr == IF sr.str.some THEN utf8(sr.str.s) ELSE <<>>
        from   == IF sr.found.some /\ sr.found = sr.start
                  THEN [sr.start EXCEPT !.offset = @ + 1]
                  ELSE sr.start
        b      == LineBytes(ls, from.line)
        r      == find(SubSeq(b, from.offset + 1, Len(b)), substr)
        after  == first_line_with(ls, substr, from.line + 1, Len(ls) - 1)
    IN  IF from.line >= Len(ls) THEN SearchPanic
        ELSE IF from.offset > Len(b) \/ ~is_char_boundary(b, from.offset)
        THEN SearchPanic
        ELSE IF r >= 0 THEN SearchResult(LinePos(from.line, r + from.offset))
        ELSE IF after.some THEN SearchResult(after)
        ELSE SearchResult(first_line_with(ls, substr, 0, from.line))

\* SearchState::is_valid
is_valid(sr) == sr.str.some /\ sr.str.s # <<>>

NoStr == [some |-> FALSE, s |-> <<>>]

\* temp_buf: Option<String> of digits, kept as the number it parses to
NoBuf == [some |-> FALSE, line |-> 0]

SomeBuf(n) == [some |-> TRUE, line |-> n]

Digits == 0..9

SomeStr(str) == [some |-> TRUE, s |-> str]

BlameInit ==
    /\ blame_state = "Closed"
    /\ blame_lines = <<>>
    /\ table_state = 0
    /\ search = [str |-> NoStr, start |-> LinePos(0, 0), found |-> NoPos]
    /\ last_key = "none"
    /\ temp_buf = NoBuf

BlameFrame == UNCHANGED <<jobVars, rebaseVars, walkVars, todoVars, markVars, diffVars,
                          optVars, moreVars>>

\* the blame of a file arrives: file_blame = Some(..)
open_blame ==
    /\ blame_state = "Closed"
    /\ \E n \in 1..MaxBlameLines : blame_lines' \in [1..n -> Strings(MaxLineChars)]
    /\ blame_state' = "Normal"
    /\ last_key' = "open"
    /\ UNCHANGED <<table_state, search, temp_buf>>
    /\ BlameFrame

\* BlameFileComponent::get_max_line_number
get_max_line_number == Len(blame_lines) - 1

\* BlameFileComponent::move_selection: the new selection of a scroll type
\* (only Down is limited by the last line)
new_selection(scroll_type) ==
    CASE scroll_type = "Up"   -> saturating_sub(table_state, 1)
      [] scroll_type = "Down" -> IF table_state + 1 <= get_max_line_number
                                 THEN table_state + 1 ELSE get_max_line_number
      [] scroll_type = "Home" -> 0
      [] scroll_type = "End"  -> get_max_line_number

\* table_state.select(Some(line)), and the search start follows a valid search
select_line(row) ==
    /\ table_state' = row
    /\ search' = IF is_valid(search)
                 THEN [search EXCEPT !.start = LinePos(row, 0)]
                 ELSE search

\* BlameFileComponent::event in Normal: move_up, move_down, home
blame_move_selection ==
    /\ blame_state = "Normal"
    /\ \E scroll_type \in {"Up", "Down", "Home"} :
          select_line(new_selection(scroll_type))
    /\ last_key' = "move"
    /\ temp_buf' = NoBuf
    /\ UNCHANGED <<blame_state, blame_lines>>
    /\ BlameFrame

\* BlameFileComponent::event in Normal: a digit is appended to temp_buf
digit_key ==
    /\ blame_state = "Normal"
    /\ \E c \in Digits :
          LET typed == IF temp_buf.some THEN 10 * temp_buf.line + c ELSE c
          IN  /\ typed <= MaxBlameLines
              /\ temp_buf' = SomeBuf(typed)
    /\ last_key' = "digit"
    /\ UNCHANGED <<blame_state, blame_lines, table_state, search>>
    /\ BlameFrame

\* BlameFileComponent::event in Normal: shift_down or end, which selects
\* the line number typed before it, or else the last line
end_key ==
    /\ blame_state = "Normal"
    /\ IF temp_buf.some THEN select_line(temp_buf.line)
       ELSE select_line(new_selection("End"))
    /\ last_key' = "end"
    /\ temp_buf' = NoBuf
    /\ UNCHANGED <<blame_state, blame_lines>>
    /\ BlameFrame

\* BlameFileComponent::enter_search_mode
enter_search_mode ==
    /\ blame_state = "Normal"
    /\ blame_state' = "SearchEditing"
    /\ search' = [search EXCEPT !.str = SomeStr(<<>>),
                                !.start = LinePos(table_state, 0)]
    /\ last_key' = "start_search"
    /\ temp_buf' = NoBuf
    /\ UNCHANGED <<blame_lines, table_state>>
    /\ BlameFrame

\* the process panics
blame_panic == blame_state' = "Panicked" /\ UNCHANGED <<table_state, search>>

\* BlameFileComponent::search_next
search_next ==
    /\ blame_state = "Normal"
    /\ last_key' = "search_next"
    /\ IF ~is_valid(search)
       THEN UNCHANGED <<blame_state, table_state, search>>
       ELSE LET r == search_only(blame_lines, search)
            IN  IF r.panic THEN blame_panic
                ELSE IF r.pos.some
                THEN /\ search' = [search EXCEPT !.start = r.pos, !.found = r.pos]
                     /\ table_state' = r.pos.line
                     /\ UNCHANGED blame_state
                ELSE UNCHANGED <<blame_state, table_state, search>>
    /\ temp_buf' = NoBuf
    /\ UNCHANGED blame_lines
    /\ BlameFrame

\* the incremental search after the needle has become str
inc_search(str) ==
    LET sr == [search EXCEPT !.str = SomeStr(str)]
        r  == search_only(blame_lines, sr)
    IN  IF r.panic THEN blame_panic
        ELSE /\ search' = IF r.pos.some THEN [sr EXCEPT !.found = r.pos] ELSE sr
             /\ table_state' = IF r.pos.some THEN r.pos.line ELSE sr.start.line
             /\ UNCHANGED blame_state

\* BlameFileComponent::event_search_edit_state: exit_popup
search_edit_esc ==
    /\ blame_state = "SearchEditing"
    /\ table_state' = search.start.line
    /\ search' = [search EXCEPT !.str = NoStr]
    /\ blame_state' = "Normal"
    /\ last_key' = "esc"
    /\ temp_buf' = NoBuf
    /\ UNCHANGED blame_lines
    /\ BlameFrame

\* event_search_edit_state: enter
search_edit_enter ==
    /\ blame_state = "SearchEditing"
    /\ blame_state' = "Normal"
    /\ search' = IF search.str.some /\ search.str.s = <<>>
                 THEN [search EXCEPT !.str = NoStr]
                 ELSE IF search.found.some
                 THEN [search EXCEPT !.start = search.found]
                 ELSE search
    /\ last_key' = "enter"
    /\ temp_buf' = NoBuf
    /\ UNCHANGED <<blame_lines, table_state>>
    /\ BlameFrame

\* event_search_edit_state: KeyCode::Char(c)
search_edit_char ==
    /\ blame_state = "SearchEditing"
    /\ Len(search.str.s) < MaxNeedle
    /\ \E c \in Chars : inc_search(Append(search.str.s, c))
    /\ last_key' = "char"
    /\ temp_buf' = NoBuf
    /\ UNCHANGED blame_lines
    /\ BlameFrame

\* event_search_edit_state: KeyCode::Backspace
search_edit_backspace ==
    /\ blame_state = "SearchEditing"
    /\ inc_search(IF search.str.s = <<>> THEN <<>>
                  ELSE SubSeq(search.str.s, 1, Len(search.str.s) - 1))
    /\ last_key' = "backspace"
    /\ temp_buf' = NoBuf
    /\ UNCHANGED blame_lines
    /\ BlameFrame

BlameNext ==
    \/ open_blame \/ blame_move_selection \/ digit_key \/ end_key
    \/ enter_search_mode \/ search_next
    \/ search_edit_esc \/ search_edit_enter \/ search_edit_char
    \/ search_edit_backspace

(***************************************************************************)
(* Diff view, selection: src/components/diff.rs                            *)
(***************************************************************************)
min(a, b) == IF a <= b THEN a ELSE b

max(a, b) == IF a >= b THEN a ELSE b

\* enum Selection; a Single keeps its line in both fields
Single(l) == [kind |-> "Single", start |-> l, end |-> l]

Multiple(s, e) == [kind |-> "Multiple", start |-> s, end |-> e]

get_start(sel) == sel.start

get_end(sel) == sel.end

get_top(sel) ==
    IF sel.kind = "Single" THEN sel.start ELSE min(sel.start, sel.end)

get_bottom(sel) ==
    IF sel.kind = "Single" THEN sel.start ELSE max(sel.start, sel.end)

Directions == {"Up", "Down"}

\* Selection::modify with the top of the selection taken for its start
modify_from_top(sel, direction, mx) ==
    IF direction = "Up"
    THEN Multiple(get_top(sel), saturating_sub(get_end(sel), 1))
    ELSE Multiple(get_top(sel), min(get_end(sel) + 1, mx))

\* Selection::modify
modify(sel, direction, mx) ==
    IF direction = "Up"
    THEN Multiple(get_start(sel), saturating_sub(get_end(sel), 1))
    ELSE Multiple(get_start(sel), min(get_end(sel) + 1, mx))

NoDiff == [some |-> FALSE, lines |-> 0]

SomeDiff(n) == [some |-> TRUE, lines |-> n]

DiffPaths == {"a"}

RECURSIVE SumOf(_)
SumOf(hs) == IF hs = <<>> THEN 0 ELSE Head(hs) + SumOf(Tail(hs))

\* the hunks of a diff: every hunk has at least its header line
RECURSIVE HunkLists(_)
HunkLists(n) ==
    IF n = 0 THEN {<<>>}
    ELSE {<<>>} \cup
         UNION {{<<k>> \o hs : hs \in HunkLists(n - k)} : k \in 1..n}

\* hash(&diff): a number that tells the hunk lists apart; no diff hashes to
\* the default hash 0
RECURSIVE hash(_)
hash(hs) ==
    IF hs = <<>> THEN 1 ELSE Head(hs) + (MaxDiffLines + 2) * hash(Tail(hs))

NoKey == [key |-> "none", before |-> Single(0)]

\* Option<usize>
NoNumber == [some |-> FALSE, n |-> 0]

SomeNumber(n) == [some |-> TRUE, n |-> n]

\* enum CopyState; the terminal states carry their count in n
CopyState(state, n) == [state |-> state, n |-> n]

CopyNone == CopyState("None", 0)

\* Option<SearchState>
SearchNone == [kind |-> "None", s |-> <<>>, p |-> 0]

IncSearch(s, p) == [kind |-> "IncSearch", s |-> s, p |-> p]

Search(s) == [kind |-> "Search", s |-> s, p |-> 0]

\* struct Search with no search active. Its direction and smart_case are
\* read only while a search is active and are set when one starts, so they
\* are kept here with the search and not after it; start_line is never read
\* and is left out.
NoSearch == [search |-> SearchNone, direction |-> "Forward",
             smart_case |-> TRUE]

\* nothing was copied, and no terminal state of the copy machine was reached
NotCopied == [copied |-> FALSE, lines |-> <<>>, op |-> CopyNone]

DiffInit ==
    /\ diff = NoDiff
    /\ current = [path |-> "", hash |-> 0]
    /\ diff_selection = Single(0)
    /\ diff_key = NoKey
    /\ hunks = <<>>
    /\ selected_hunk = NoNumber
    /\ copy_op = CopyNone
    /\ pending_movement = NoNumber
    /\ diff_search = NoSearch
    /\ clipboard = NotCopied
    /\ diff_panicked = FALSE
    /\ key_event = "none"
    /\ search_before = "None"

DiffFrame == UNCHANGED <<jobVars, rebaseVars, walkVars, todoVars, markVars,
                         blameVars, optVars, moreVars>>

\* update_selection, for the diff d
update_selection(d, new_start) ==
    Single(min(saturating_sub(d.lines, 1), new_start))

lines_count == IF diff.some THEN diff.lines ELSE 0

\* the hunks before hunk i (from 0) hold this many lines: hunk_min
RECURSIVE hunk_min(_, _)
hunk_min(hs, i) == IF i = 0 THEN 0 ELSE hs[i] + hunk_min(hs, i - 1)

\* DiffComponent::find_selected_hunk
find_selected_hunk(hs, line_selected) ==
    LET selected(i) == /\ hunk_min(hs, i) <= line_selected
                       /\ hunk_min(hs, i) + hs[i + 1] > line_selected
    IN  IF \E i \in 0..(Len(hs) - 1) : selected(i)
        THEN SomeNumber(CHOOSE i \in 0..(Len(hs) - 1) : selected(i))
        ELSE NoNumber

\* the keys and the parts of the view that the operations below leave alone
KeysIdle ==
    /\ diff_panicked = FALSE
    /\ clipboard' = NotCopied
    /\ key_event' = "none"
    /\ search_before' = "None"
    /\ UNCHANGED <<copy_op, pending_movement, diff_search, diff_panicked>>

\* DiffComponent::update
diff_update ==
    /\ \E path \in DiffPaths, hs \in HunkLists(MaxDiffLines) :
          LET d == SomeDiff(SumOf(hs))
              sel == IF current.path # path
                     THEN update_selection(d, 0)
                     ELSE update_selection(d, get_start(diff_selection))
          IN
          /\ current.hash # hash(hs)
          /\ current' = [path |-> path, hash |-> hash(hs)]
          /\ diff' = d
          /\ hunks' = hs
          /\ diff_selection' = sel
          /\ selected_hunk' = find_selected_hunk(hs, get_start(sel))
    /\ diff_key' = NoKey
    /\ KeysIdle
    /\ DiffFrame

\* DiffComponent::clear
diff_clear ==
    /\ diff.some
    /\ current' = [path |-> "", hash |-> 0]
    /\ diff' = NoDiff
    /\ hunks' = <<>>
    /\ diff_selection' = Single(0)
    /\ selected_hunk' = NoNumber
    /\ diff_key' = NoKey
    /\ KeysIdle
    /\ DiffFrame

ScrollTypes == {"Down", "Up", "Home", "End"}

\* DiffComponent::move_selection: the new_start it computes
move_selection_start(d, sel, move_type) ==
    CASE move_type = "Down" -> get_bottom(sel) + 1
      [] move_type = "Up" -> saturating_sub(get_top(sel), 1)
      [] move_type = "Home" -> 0
      [] move_type = "End" -> saturating_sub(d.lines, 1)

\* DiffComponent::move_selection
diff_move_selection ==
    /\ diff.some
    /\ \E move_type \in ScrollTypes :
          LET sel == update_selection(diff,
                         move_selection_start(diff, diff_selection, move_type))
          IN  /\ diff_selection' = sel
              /\ selected_hunk' = find_selected_hunk(hunks, get_start(sel))
    /\ diff_key' = NoKey
    /\ UNCHANGED <<diff, current, hunks>>
    /\ KeysIdle
    /\ DiffFrame

\* DiffComponent::modify_selection, on shift_up and shift_down
modify_selection ==
    /\ diff.some
    /\ \E direction \in Directions :
          /\ diff_selection' = modify(diff_selection, direction, lines_count)
          /\ diff_key' = [key |-> direction, before |-> diff_selection]
    /\ UNCHANGED <<diff, current, hunks, selected_hunk>>
    /\ KeysIdle
    /\ DiffFrame

DiffNext ==
    \/ diff_update \/ diff_clear \/ diff_move_selection \/ modify_selection

(***************************************************************************)
(* Diff view, key events: src/components/diff.rs                           *)
(* A handler is an operator from the fields of the component before it to  *)
(* the fields after it; the diff itself is not changed by a key.           *)
(***************************************************************************)
\* the keys: those matched by code alone, and KeyCode::Char(c)
PlainKeys == {"Up", "Down", "ShiftUp", "ShiftDown", "Enter", "Esc",
              "Backspace"}

CharKeys == {"y", "h", "/", "?", "n", "N", "a", "1", "2"}

DiffKeys == PlainKeys \cup CharKeys

\* the characters typed into a needle
NeedleChars == {"1"}

\* char::to_digit(10): -1 for None
to_digit(c) == CASE c = "1" -> 1 [] c = "2" -> 2 [] OTHER -> -1

is_uppercase(c) == c = "N"

to_lowercase(c) == IF c = "N" THEN "n" ELSE c

\* the content of line i (from 0): the first line of a hunk is its header,
\* the other lines read "1"
line_content(i) ==
    IF \E h \in 0..(Len(hunks) - 1) : hunk_min(hunks, h) = i
    THEN <<"@">>
    ELSE <<"1">>

str_contains(text, s) ==
    \E k \in 0..(Len(text) - Len(s)) : SubSeq(text, k + 1, k + Len(s)) = s

lowercase(s) == [i \in 1..Len(s) |-> to_lowercase(s[i])]

\* Search::find_in_str
find_in_str(srch, text) ==
    IF srch.smart_case
    THEN str_contains(lowercase(text), lowercase(srch.search.s))
    ELSE str_contains(text, srch.search.s)

Fields ==
    [sel |-> diff_selection, hunk |-> selected_hunk, copy |-> copy_op,
     pend |-> pending_movement, search |-> diff_search, clip |-> NotCopied,
     panicked |-> FALSE]

\* a handler's result: the fields, and EventState::Consumed or NotConsumed
Consumed(S) == [S |-> S, consumed |-> TRUE]

NotConsumed(S) == [S |-> S, consumed |-> FALSE]

Panic(S) == Consumed([S EXCEPT !.panicked = TRUE])

\* DiffComponent::update_selection
select(S, new_start) ==
    IF diff.some
    THEN LET sel == update_selection(diff, new_start) IN
         [S EXCEPT !.sel = sel,
                   !.hunk = find_selected_hunk(hunks, get_start(sel))]
    ELSE S

\* the least and the greatest of a non-empty set of numbers
Least(set) == CHOOSE x \in set : \A y \in set : x <= y

Greatest(set) == CHOOSE x \in set : \A y \in set : x >= y

\* the lines of the diff, enumerated over the hunks
LineIndices == 0..(SumOf(hunks) - 1)

\* DiffComponent::search_forward; start is an Option
search_forward(S, start) ==
    LET start_index == IF start.some THEN start.n ELSE get_start(S.sel)
        found == {i \in LineIndices :
                     i >= start_index + 1 /\ find_in_str(S.search, line_content(i))}
    IN  select(S, IF found = {} THEN start_index ELSE Least(found))

\* DiffComponent::search_backwards
search_backwards(S, start) ==
    LET start_index == IF start.some THEN start.n ELSE get_start(S.sel)
        found == {i \in LineIndices :
                     i < start_index /\ find_in_str(S.search, line_content(i))}
    IN  select(S, IF found = {} THEN start_index ELSE Greatest(found))

search_in_direction(S, direction, start) ==
    IF direction = "Forward" THEN search_forward(S, start)
    ELSE search_backwards(S, start)

Opposite(direction) == IF direction = "Forward" THEN "Backward" ELSE "Forward"

\* DiffComponent::search_event, Backspace in IncSearch: s.remove(s.len() - 1)
\* panics for an empty needle
backspace(S) ==
    LET srch == S.search.search IN
    IF srch.s = <<>>
    THEN Panic(S)
    ELSE LET S1 == [S EXCEPT !.search.search.s =
                                 SubSeq(srch.s, 1, Len(srch.s) - 1)]
         IN  NotConsumed(search_in_direction(S1, S.search.direction,
                                             SomeNumber(srch.p)))

\* DiffComponent::search_event, Esc, leaving the selection where it is
exit_search_stay(S) ==
    Consumed([S EXCEPT !.search = NoSearch])

\* DiffComponent::search_event, Esc
exit_search(S) ==
    LET srch == S.search.search
        S1 == [S EXCEPT !.search = NoSearch]
    IN  IF srch.kind = "IncSearch"
        THEN Consumed(select(S1, srch.p))
        ELSE Consumed(S1)

\* DiffComponent::search_event; it is called when the search is active
search_event(S, k) ==
    LET srch == S.search.search IN
    CASE k = "Enter" ->
           Consumed([S EXCEPT !.search =
               IF srch.kind = "IncSearch"
               THEN (IF srch.s # <<>>
                     THEN [@ EXCEPT !.search = Search(srch.s)]
                     ELSE NoSearch)
               ELSE @])
      [] k = "Esc" -> exit_search(S)
      [] k \notin {"Enter", "Esc"} /\ srch.kind = "Search" ->
           IF k = "n"
           THEN Consumed(search_in_direction(S, S.search.direction, NoNumber))
           ELSE IF k = "N"
           THEN Consumed(search_in_direction(S, Opposite(S.search.direction),
                                             NoNumber))
           ELSE NotConsumed(S)
      [] k \notin {"Enter", "Esc"} /\ srch.kind = "IncSearch" ->
           IF k \in CharKeys
           THEN LET S1 == [S EXCEPT
                             !.search.smart_case =
                                 IF is_uppercase(k) THEN FALSE ELSE @,
                             !.search.search.s = Append(@, k)]
                IN  Consumed(search_in_direction(S1, S.search.direction,
                                                 SomeNumber(srch.p)))
           ELSE IF k = "Backspace" THEN backspace(S)
           ELSE NotConsumed(S)

\* Selection::contains
contains(sel, index) ==
    IF sel.kind = "Single" THEN index = sel.start
    ELSE IF sel.start <= sel.end
         THEN sel.start <= index /\ index <= sel.end
         ELSE sel.end <= index /\ index <= sel.start

\* the numbers of a set in increasing order
RECURSIVE Ascending(_)
Ascending(set) ==
    IF set = {} THEN <<>>
    ELSE <<Least(set)>> \o Ascending(set \ {Least(set)})

\* DiffComponent::copy_selection: the lines handed to the clipboard
copy_selection(S) ==
    IF diff.some
    THEN [S EXCEPT !.clip.copied = TRUE,
                   !.clip.lines =
                       Ascending({i \in LineIndices : contains(S.sel, i)})]
    ELSE S

\* DiffComponent::get_hunk_line_range: (hunk_min, hunk_max)
get_hunk_line_range(hs, hunk_index) ==
    <<hunk_min(hs, hunk_index), hunk_min(hs, hunk_index) + hs[hunk_index + 1]>>

\* copy_event: the end of the lines copied by LinesUp(s)
lines_up_end(start, s) == saturating_sub(start, s)

\* copy_event, a digit in Size(s), with the digit added to the number
size_plus_digit(s, d) == s + d

\* copy_event, a digit in Size(s): s * 10 + d
size_with_digit(s, d) == s * 10 + d

\* copy_event: the first part, the transition of copy_op on the key; the
\* states Line, Hunk, LinesUp and LinesDown are the terminal ones
copy_transition(op, k) ==
    CASE k = "y" ->
           IF op.state = "Pending" THEN CopyState("Line", 0) ELSE CopyNone
      [] k = "h" ->
           IF op.state = "Pending" THEN CopyState("Hunk", 0) ELSE CopyNone
      [] k = "Up" ->
           IF op.state = "Pending" THEN CopyState("LinesUp", 1)
           ELSE IF op.state = "Size" THEN CopyState("LinesUp", op.n)
           ELSE CopyNone
      [] k = "Down" ->
           IF op.state = "Pending" THEN CopyState("LinesDown", 1)
           ELSE IF op.state = "Size" THEN CopyState("LinesDown", op.n)
           ELSE CopyNone
      [] k \in CharKeys \ {"y", "h"} ->
           IF to_digit(k) # -1
           THEN (IF op.state = "Pending" THEN CopyState("Size", to_digit(k))
                 ELSE IF op.state = "Size"
                 THEN CopyState("Size", size_with_digit(op.n, to_digit(k)))
                 ELSE CopyNone)
           ELSE CopyNone
      [] OTHER -> CopyNone

\* copy_event: the second part, "try execute"
copy_execute(S) ==
    LET orig_start == get_start(S.sel)
        op == S.copy
        done(T) == [T EXCEPT !.copy = CopyNone]
    IN
    CASE op.state = "Line" -> done(copy_selection(S))
      [] op.state = "Hunk" ->
           IF S.hunk.some
           THEN LET hr == get_hunk_line_range(hunks, S.hunk.n)
                    S1 == select(S, hr[1])
                    S2 == [S1 EXCEPT !.sel = Multiple(hr[1], hr[2])]
                IN  done(select(copy_selection(S2), orig_start))
           ELSE done(S)
      [] op.state = "LinesUp" ->
           LET S1 == [S EXCEPT !.sel =
                         Multiple(orig_start, lines_up_end(orig_start, op.n))]
           IN  done(select(copy_selection(S1), orig_start))
      [] op.state = "LinesDown" ->
           LET S1 == [S EXCEPT !.sel =
                         Multiple(orig_start,
                                  min(orig_start + op.n, lines_count))]
           IN  done(select(copy_selection(S1), orig_start))
      [] OTHER -> S

\* DiffComponent::copy_event; the state the transition led to is noted
copy_event(S, k) ==
    LET op == copy_transition(S.copy, k) IN
    Consumed(copy_execute([S EXCEPT !.copy = op, !.clip.op = op]))

\* DiffComponent::movement_event on a key that is no digit, Up or Down
clear_pending(S) == NotConsumed([S EXCEPT !.pend = NoNumber])

\* DiffComponent::movement_event, move_down with a pending number:
\* lines_count() - 1 is computed in usize; for no lines it panics where
\* overflow is checked and wraps to the greatest usize where it is not
movement_down(S, overflow_checks) ==
    IF lines_count = 0
    THEN IF overflow_checks
         THEN Panic(S)
         ELSE Consumed([select(S, get_start(S.sel) + S.pend.n)
                           EXCEPT !.pend = NoNumber])
    ELSE Consumed([select(S, min(get_start(S.sel) + S.pend.n, lines_count - 1))
                      EXCEPT !.pend = NoNumber])

\* DiffComponent::movement_event
movement_event(S, k, overflow_checks) ==
    CASE k = "Up" ->
           IF S.pend.some
           THEN Consumed([select(S, saturating_sub(get_start(S.sel), S.pend.n))
                             EXCEPT !.pend = NoNumber])
           ELSE NotConsumed(S)
      [] k = "Down" ->
           IF S.pend.some THEN movement_down(S, overflow_checks)
           ELSE NotConsumed(S)
      [] k \in CharKeys ->
           IF to_digit(k) # -1
           THEN Consumed([S EXCEPT !.pend =
                    IF S.pend.some THEN SomeNumber(S.pend.n * 10 + to_digit(k))
                    ELSE SomeNumber(to_digit(k))])
           ELSE clear_pending(S)
      [] OTHER -> clear_pending(S)

\* DiffComponent::move_hunk_selection
move_hunk_selection(S, move_type) ==
    IF diff.some
    THEN select(S,
           IF move_type = "Down"
           THEN (IF S.hunk.some
                 THEN get_hunk_line_range(hunks, S.hunk.n)[2] ELSE 0)
           ELSE (IF S.hunk.some
                 THEN get_hunk_line_range(hunks, saturating_sub(S.hunk.n, 1))[1]
                 ELSE 0))
    ELSE S

\* DiffComponent::event: the keys in the order of the if chain, reached
\* with copy_op None and no pending movement
event_chain(S, k, overflow_checks) ==
    LET move(move_type) ==
            IF diff.some
            THEN Consumed(select(S, move_selection_start(diff, S.sel, move_type)))
            ELSE Consumed(S)
        extend(direction) ==
            IF diff.some
            THEN Consumed([S EXCEPT !.sel = modify(S.sel, direction, lines_count)])
            ELSE Consumed(S)
        start_search(direction) ==
            Consumed([S EXCEPT !.search =
                [search |-> IncSearch(<<>>, get_start(S.sel)),
                 direction |-> direction, smart_case |-> TRUE]])
    IN
    CASE k = "Down" -> move("Down")
      [] k = "ShiftDown" -> extend("Down")
      [] k = "ShiftUp" -> extend("Up")
      [] k = "End" -> move("End")
      [] k = "Home" -> move("Home")
      [] k = "Up" -> move("Up")
      [] k = "Right" -> Consumed(move_hunk_selection(S, "Down"))
      [] k = "Left" -> Consumed(move_hunk_selection(S, "Up"))
      [] k = "/" -> start_search("Forward")
      [] k = "?" -> start_search("Backward")
      [] k = "y" ->
           IF S.sel.kind = "Multiple" THEN Consumed(copy_selection(S))
           ELSE Consumed([S EXCEPT !.copy = CopyState("Pending", 0)])
      [] k \in CharKeys \ {"/", "?", "y"} ->
           IF to_digit(k) # -1 THEN movement_event(S, k, overflow_checks)
           ELSE NotConsumed(S)
      [] OTHER -> NotConsumed(S)

\* DiffComponent::event for a key, the component being focused
event_key(S, k, overflow_checks) ==
    LET searched == IF S.search.search.kind # "None"
                    THEN search_event(S, k)
                    ELSE NotConsumed(S)
        T == searched.S
    IN  IF searched.consumed THEN searched
        ELSE IF T.copy.state # "None" THEN copy_event(T, k)
        ELSE IF T.pend.some THEN movement_event(T, k, overflow_checks)
        ELSE event_chain(T, k, overflow_checks)

\* the keys typed: a needle has at most MaxDiffNeedle characters, taken from
\* NeedleChars, and a number typed is at most MaxStride
KeyTyped(k) ==
    /\ diff_search.search.kind = "IncSearch" /\ k \in CharKeys =>
          /\ k \in NeedleChars
          /\ Len(diff_search.search.s) < MaxDiffNeedle
    /\ to_digit(k) # -1 =>
          /\ copy_op.n * 10 + to_digit(k) <= MaxStride
          /\ pending_movement.n * 10 + to_digit(k) <= MaxStride

\* whether the build checks arithmetic overflow: both builds where it
\* matters to the key, one where it does not
OverflowChecks(k) ==
    IF k = "Down" /\ lines_count = 0 THEN BOOLEAN ELSE {TRUE}

\* DiffComponent::event on Event::Key
diff_event ==
    /\ diff_panicked = FALSE
    /\ \E k \in DiffKeys : \E overflow_checks \in OverflowChecks(k) :
          LET R == event_key(Fields, k, overflow_checks).S IN
          /\ KeyTyped(k)
          /\ key_event' = k
          /\ search_before' = diff_search.search.kind
          /\ diff_selection' = R.sel
          /\ selected_hunk' = R.hunk
          /\ copy_op' = R.copy
          /\ pending_movement' = R.pend
          /\ diff_search' = R.search
          /\ clipboard' = R.clip
          /\ diff_panicked' = R.panicked
    /\ UNCHANGED <<diff, current, hunks, diff_key>>
    /\ DiffFrame

DiffKeysNext ==
    \/ diff_update \/ diff_clear \/ diff_event

(***************************************************************************)
(* Options: src/options.rs                                                 *)
(***************************************************************************)
COMMIT_MSG_HISTRY_LENGTH == 20

\* the command strings the user runs
Cmds == {"c1", "c2"}

\* Option<GituiKeyEvent>: no shortcut
NoShortcut == "none"

\* the keys given as shortcuts
Shortcuts == {"F1", "F2"}

Branches == {"b1", "b2"}

\* remove(idx) of Vec
Remove(v, idx) == SubSeq(v, 1, idx) \o SubSeq(v, idx + 2, Len(v))

\* the first index (from 0) whose entry has the given name, or -1
position(v, name) ==
    IF \E i \in 1..Len(v) : v[i][1] = name
    THEN (CHOOSE i \in 1..Len(v) :
              /\ v[i][1] = name
              /\ \A j \in 1..(i - 1) : v[j][1] # name) - 1
    ELSE -1

NoOp == [op |-> "none", arg |-> "", idx |-> 0]

Op(name, arg, idx) == [op |-> name, arg |-> arg, idx |-> idx]

OptInit ==
    /\ extern_cmds = <<>>
    /\ commit_msgs = <<>>
    /\ branch_shortcuts = <<>>
    /\ msgs_added = 0
    /\ opt_op = NoOp

OptFrame == UNCHANGED <<jobVars, rebaseVars, walkVars, todoVars, markVars,
                        blameVars, diffVars, moreVars>>

\* Options::add_extern_command without the search for an existing entry
add_extern_command_always(cmd) ==
    <<<<cmd, NoShortcut>>>> \o extern_cmds

\* Options::add_extern_command: the list it leaves
add_extern_command(cmd) ==
    LET existing == position(extern_cmds, cmd) IN
    IF existing = -1
    THEN <<<<cmd, NoShortcut>>>> \o extern_cmds
    ELSE extern_cmds

\* ExternalCommandPopupComponent::run_command_ui: its call of
\* add_extern_command
extern_command_entered ==
    /\ \E cmd \in Cmds :
          /\ extern_cmds' = add_extern_command(cmd)
          /\ opt_op' = Op("add_extern_command", cmd, 0)
    /\ UNCHANGED <<commit_msgs, branch_shortcuts, msgs_added>>
    /\ OptFrame

\* Options::remove_extern_command, with the selected index of the popup
remove_extern_command ==
    /\ \E idx \in 0..Cardinality(Cmds) :
          /\ extern_cmds' = IF idx < Len(extern_cmds)
                            THEN Remove(extern_cmds, idx)
                            ELSE extern_cmds
          /\ opt_op' = Op("remove_extern_command", "", idx)
    /\ UNCHANGED <<commit_msgs, branch_shortcuts, msgs_added>>
    /\ OptFrame

\* Options::assign_shortcut_for_extern_command; the popup calls it with a
\* shortcut or with None, and only when the list is not empty
assign_shortcut_for_extern_command ==
    /\ \E idx \in 0..(Len(extern_cmds) - 1),
           shortcut \in Shortcuts \cup {NoShortcut} :
          /\ extern_cmds' =
                [extern_cmds EXCEPT ![idx + 1] = <<@[1], shortcut>>]
          /\ opt_op' = Op("assign_shortcut_for_extern_command", shortcut, idx)
    /\ UNCHANGED <<commit_msgs, branch_shortcuts, msgs_added>>
    /\ OptFrame

\* Options::clear_all_shortcuts_for_extern_commands
clear_all_shortcuts_for_extern_commands ==
    /\ extern_cmds' = [i \in 1..Len(extern_cmds) |->
                          <<extern_cmds[i][1], NoShortcut>>]
    /\ opt_op' = Op("clear_all_shortcuts_for_extern_commands", "", 0)
    /\ UNCHANGED <<commit_msgs, branch_shortcuts, msgs_added>>
    /\ OptFrame

\* the body of the loop of add_commit_msg removing the newest entry
remove_newest(v) == Remove(v, Len(v) - 1)

\* the body of the loop of add_commit_msg: commit_msgs.remove(0)
remove_oldest(v) == Remove(v, 0)

\* the loop of add_commit_msg
RECURSIVE trim_front(_, _)
trim_front(v, cap) ==
    IF Len(v) > cap THEN trim_front(remove_oldest(v), cap) ELSE v

\* Options::add_commit_msg; the message is the number of the call
add_commit_msg ==
    /\ msgs_added < MaxMsgs
    /\ msgs_added' = msgs_added + 1
    /\ commit_msgs' = trim_front(Append(commit_msgs, msgs_added + 1),
                                 COMMIT_MSG_HISTRY_LENGTH)
    /\ opt_op' = Op("add_commit_msg", "", 0)
    /\ UNCHANGED <<extern_cmds, branch_shortcuts>>
    /\ OptFrame

\* Options::assign_shortcut_for_branch that always pushes
assign_always_push(branch, shortcut) ==
    Append(branch_shortcuts, <<branch, shortcut>>)

\* Options::assign_shortcut_for_branch: the list it leaves
assign(branch, shortcut) ==
    LET existing == position(branch_shortcuts, branch) IN
    IF existing # -1
    THEN [branch_shortcuts EXCEPT ![existing + 1] = <<@[1], shortcut>>]
    ELSE Append(branch_shortcuts, <<branch, shortcut>>)

assign_shortcut_for_branch ==
    /\ \E branch \in Branches, shortcut \in Shortcuts :
          /\ branch_shortcuts' = assign(branch, shortcut)
          /\ opt_op' = Op("assign_shortcut_for_branch", branch, 0)
    /\ UNCHANGED <<extern_cmds, commit_msgs, msgs_added>>
    /\ OptFrame

\* retain(|i| i.0 != branch)
retain_other_branches(v, branch) ==
    SelectSeq(v, LAMBDA i : i[1] # branch)

remove_shortcut_for_branch ==
    /\ \E branch \in Branches :
          /\ branch_shortcuts' = retain_other_branches(branch_shortcuts, branch)
          /\ opt_op' = Op("remove_shortcut_for_branch", branch, 0)
    /\ UNCHANGED <<extern_cmds, commit_msgs, msgs_added>>
    /\ OptFrame

clear_all_branch_shortcuts ==
    /\ branch_shortcuts' = <<>>
    /\ opt_op' = Op("clear_all_branch_shortcuts", "", 0)
    /\ UNCHANGED <<extern_cmds, commit_msgs, msgs_added>>
    /\ OptFrame

OptNext ==
    \/ extern_command_entered \/ remove_extern_command
    \/ assign_shortcut_for_extern_command
    \/ clear_all_shortcuts_for_extern_commands
    \/ add_commit_msg
    \/ assign_shortcut_for_branch \/ remove_shortcut_for_branch
    \/ clear_all_branch_shortcuts

(***************************************************************************)
(* The key combos of the commit list (src/components/commitlist.rs):       *)
(* the search-init and filter-init keys, the key after them, and the keys  *)
(* of the search and filter input fields.                                  *)
(***************************************************************************)
\* the keys: search-init, filter-init, author, message, sha, exit_popup,
\* enter, toggle_workarea, and a key bound to none of these
ListKeys == {"/", "=", "a", "m", "s", "Esc", "Enter", "w", "x"}

\* SearchOptionsPopupComponent::enable_all, author_only, message_only, sha_only
enable_all == [author |-> TRUE, message |-> TRUE, sha |-> TRUE]

author_only == [author |-> TRUE, message |-> FALSE, sha |-> FALSE]

message_only == [author |-> FALSE, message |-> TRUE, sha |-> FALSE]

sha_only == [author |-> FALSE, message |-> FALSE, sha |-> TRUE]

\* the same of filter_options, which has no sha flag
filter_enable_all == [author |-> TRUE, message |-> TRUE]

filter_author_only == [author |-> TRUE, message |-> FALSE]

filter_message_only == [author |-> FALSE, message |-> TRUE]

ComboInit ==
    /\ combo_state = "Empty"
    /\ focused_field = "List"
    /\ search_field_visible = FALSE
    /\ filter_field_visible = FALSE
    /\ search_options = enable_all
    /\ filter_options = filter_enable_all
    /\ combo_key = "none"

ComboFrame == UNCHANGED <<jobVars, rebaseVars, walkVars, todoVars, markVars,
                          blameVars, diffVars, optVars, csVars, stackVars,
                          tickVars, popupVars>>

\* the fields a key event of the list reads and writes
ComboFields ==
    [combo |-> combo_state, focus |-> focused_field,
     search_visible |-> search_field_visible,
     filter_visible |-> filter_field_visible,
     search_opts |-> search_options, filter_opts |-> filter_options]

\* CommitList::show_search
show_search(C, opts) ==
    [C EXCEPT !.search_opts = opts, !.search_visible = TRUE,
              !.focus = "InputSearch"]

\* CommitList::show_filter
show_filter(C, opts) ==
    [C EXCEPT !.filter_opts = opts, !.filter_visible = TRUE,
              !.focus = "InputFilter"]

\* CommitList::stop_search
stop_search(C) == [C EXCEPT !.search_visible = FALSE, !.focus = "List"]

\* CommitList::stop_filter
stop_filter(C) == [C EXCEPT !.filter_visible = FALSE, !.focus = "List"]

\* CommitList::toggle_input_focus
toggle_input_focus(C) ==
    [C EXCEPT !.focus =
        IF C.focus = "InputFilter" /\ C.search_visible THEN "InputSearch"
        ELSE IF C.focus = "InputFilter" THEN "List"
        ELSE IF C.focus = "List" /\ C.filter_visible THEN "InputFilter"
        ELSE IF C.focus = "List" /\ C.search_visible THEN "InputSearch"
        ELSE "List"]

\* CommitList::try_handle_combo_event: the fields after it and whether it
\* returned Some(Consumed)
try_handle_combo_event(C, k) ==
    LET E == [C EXCEPT !.combo = "Empty"] IN
    IF C.combo = "SearchInitForward"
    THEN IF k = "/" THEN [C |-> show_search(E, enable_all), some |-> TRUE]
         ELSE IF k = "a" THEN [C |-> show_search(E, author_only), some |-> TRUE]
         ELSE IF k = "m" THEN [C |-> show_search(E, message_only), some |-> TRUE]
         ELSE IF k = "s" THEN [C |-> show_search(E, sha_only), some |-> TRUE]
         ELSE [C |-> E, some |-> FALSE]
    ELSE IF C.combo = "FilterInit"
    THEN IF k = "=" THEN [C |-> show_filter(E, filter_enable_all), some |-> TRUE]
         ELSE IF k = "a" THEN [C |-> show_filter(E, filter_author_only), some |-> TRUE]
         ELSE IF k = "m" THEN [C |-> show_filter(E, filter_message_only), some |-> TRUE]
         ELSE [C |-> E, some |-> FALSE]
    ELSE [C |-> C, some |-> FALSE]

\* the branches of list_event that set combo_state
combo_set(C, state) == [C EXCEPT !.combo = state]

\* the if chain of CommitList::list_event, the branches that touch the
\* combo state, the focus or the fields
list_chain(C, k) ==
    IF k = "/" THEN combo_set(C, "SearchInitForward")
    ELSE IF k = "Esc"
    THEN (IF C.search_visible \/ C.filter_visible
          THEN stop_filter(stop_search(C)) ELSE C)
    ELSE IF k = "=" THEN combo_set(C, "FilterInit")
    ELSE IF k = "w" THEN toggle_input_focus(C)
    ELSE C

\* CommitList::list_event
list_event(C, k) ==
    LET r == try_handle_combo_event(C, k) IN
    IF r.some THEN r.C ELSE list_chain(r.C, k)

\* CommitList::search_input_event
search_input_event(C, k) ==
    IF k = "Enter" THEN [C EXCEPT !.focus = "List"]
    ELSE IF k = "Esc" THEN stop_search(C)
    ELSE IF k = "w" THEN toggle_input_focus(C)
    ELSE C

\* CommitList::filter_input_event
filter_input_event(C, k) ==
    IF k = "Enter" THEN [C EXCEPT !.focus = "List"]
    ELSE IF k = "Esc" THEN stop_filter(C)
    ELSE IF k = "w" THEN toggle_input_focus(C)
    ELSE C

\* Component::event of the CommitList for a key event
commitlist_event ==
    /\ \E k \in ListKeys :
          LET C == IF focused_field = "List" THEN list_event(ComboFields, k)
                   ELSE IF focused_field = "InputSearch"
                   THEN search_input_event(ComboFields, k)
                   ELSE filter_input_event(ComboFields, k)
          IN  /\ combo_state' = C.combo
              /\ focused_field' = C.focus
              /\ search_field_visible' = C.search_visible
              /\ filter_field_visible' = C.filter_visible
              /\ search_options' = C.search_opts
              /\ filter_options' = C.filter_opts
              /\ combo_key' = k
    /\ ComboFrame

ComboNext == commitlist_event

(***************************************************************************)
(* The search in the commit list (src/components/commitlist.rs):           *)
(* search_commit_forward, search_commit_backward and the request to        *)
(* extend the batch. The selection is a commit of the loaded batch.        *)
(***************************************************************************)
\* the longest batch loaded
MaxBatch == 3

\* the index_offset of a batch: it starts at the first commit of the log
\* or after it
Offsets == {0, 1}

\* a commit of the author "N", one whose message and hash hold "n", and one
\* with neither
ItemKinds ==
    {[author |-> <<"N">>, msg |-> <<"b">>, hash_full |-> <<"b">>],
     [author |-> <<"b">>, msg |-> <<"n">>, hash_full |-> <<"n">>],
     [author |-> <<"b">>, msg |-> <<"b">>, hash_full |-> <<"b">>]}

Batches == UNION {[1..n -> ItemKinds] : n \in 1..MaxBatch}

\* the needles entered: none, and one in each case
CommitNeedles == {<<>>, <<"n">>, <<"N">>}

SearchModes == {enable_all, author_only, message_only, sha_only}

CsNoOp == [name |-> "none", returned |-> "Empty"]

CsInit ==
    /\ cs_offset = 0
    /\ cs_items = <<>>
    /\ cs_selection = 0
    /\ current_search = <<>>
    /\ cs_options = enable_all
    /\ extended_search_request = "Empty"
    /\ cs_op = CsNoOp

CsFrame == UNCHANGED <<jobVars, rebaseVars, walkVars, todoVars, markVars,
                       blameVars, diffVars, optVars, comboVars, stackVars,
                       tickVars, popupVars>>

\* CommitList::search_commit_check
search_commit_check(opts, needle, item) ==
    \/ opts.message /\ str_contains(lowercase(item.msg), needle)
    \/ opts.author /\ str_contains(lowercase(item.author), needle)
    \/ opts.sha /\ str_contains(item.hash_full, needle)

\* the positions (from 0) of the items of the batch that pass the check
\* for the needle, lowercased
checked(opts, typed) ==
    {i \in 0..(Len(cs_items) - 1) :
        search_commit_check(opts, lowercase(typed), cs_items[i + 1])}

\* .skip(local_selection + 1).filter(..), taking the last instead of nth(0)
forward_last(opts, typed, local_selection) ==
    LET found == {i \in checked(opts, typed) : i > local_selection}
    IN  IF found = {} THEN [some |-> FALSE, idx |-> 0]
        ELSE [some |-> TRUE, idx |-> Greatest(found)]

\* .skip(local_selection + 1).filter(..).nth(0)
forward_nth0(opts, typed, local_selection) ==
    LET found == {i \in checked(opts, typed) : i > local_selection}
    IN  IF found = {} THEN [some |-> FALSE, idx |-> 0]
        ELSE [some |-> TRUE, idx |-> Least(found)]

\* .take(local_selection).enumerate().rev().filter(..).nth(0)
backward_nth0(opts, typed, local_selection) ==
    LET found == {i \in checked(opts, typed) : i < local_selection}
    IN  IF found = {} THEN [some |-> FALSE, idx |-> 0]
        ELSE [some |-> TRUE, idx |-> Greatest(found)]

\* CommitList::search_commit_forward with current_search = typed
search_commit_forward(opts, typed) ==
    IF typed = <<>>
    THEN UNCHANGED <<cs_selection, extended_search_request>>
    ELSE LET r == forward_nth0(opts, typed, cs_selection - cs_offset) IN
         IF r.some
         THEN /\ cs_selection' = cs_offset + r.idx
              /\ UNCHANGED extended_search_request
         ELSE /\ extended_search_request' = "Forward"
              /\ UNCHANGED cs_selection

\* CommitList::search_commit_backward
search_commit_backward ==
    IF current_search = <<>>
    THEN UNCHANGED <<cs_selection, extended_search_request>>
    ELSE LET r == backward_nth0(cs_options, current_search,
                                cs_selection - cs_offset) IN
         IF r.some
         THEN /\ cs_selection' = cs_offset + r.idx
              /\ UNCHANGED extended_search_request
         ELSE IF cs_offset > 0
         THEN /\ extended_search_request' = "Backward"
              /\ UNCHANGED cs_selection
         ELSE UNCHANGED <<cs_selection, extended_search_request>>

\* CommitList::clear
cs_clear ==
    /\ cs_items # <<>>
    /\ cs_items' = <<>>
    /\ cs_op' = CsNoOp
    /\ UNCHANGED <<cs_offset, cs_selection, current_search, cs_options,
                   extended_search_request>>
    /\ CsFrame

\* a batch is loaded into the cleared list and a commit of it is selected
cs_load ==
    /\ cs_items = <<>>
    /\ \E off \in Offsets, b \in Batches :
          /\ cs_offset' = off
          /\ cs_items' = b
          /\ \E sel \in off..(off + Len(b) - 1) : cs_selection' = sel
    /\ cs_op' = CsNoOp
    /\ UNCHANGED <<current_search, cs_options, extended_search_request>>
    /\ CsFrame

\* the search field was opened by one of the combos, a needle typed, and
\* Enter pressed: search_input_event sets current_search and searches
search_entered ==
    /\ cs_items # <<>>
    /\ \E opts \in SearchModes, needle \in CommitNeedles :
          /\ cs_options' = opts
          /\ current_search' = needle
          /\ search_commit_forward(opts, needle)
    /\ cs_op' = [name |-> "forward", returned |-> "Empty"]
    /\ UNCHANGED <<cs_offset, cs_items>>
    /\ CsFrame

\* the search_next key in the list
search_next_key ==
    /\ cs_items # <<>>
    /\ search_commit_forward(cs_options, current_search)
    /\ cs_op' = [name |-> "forward", returned |-> "Empty"]
    /\ UNCHANGED <<cs_offset, cs_items, current_search, cs_options>>
    /\ CsFrame

\* the search_prev key in the list
search_prev_key ==
    /\ cs_items # <<>>
    /\ search_commit_backward
    /\ cs_op' = [name |-> "backward", returned |-> "Empty"]
    /\ UNCHANGED <<cs_offset, cs_items, current_search, cs_options>>
    /\ CsFrame

\* CommitList::has_extended_search_request
has_extended_search_request ==
    /\ cs_op' = [name |-> "has_request", returned |-> extended_search_request]
    /\ extended_search_request' = "Empty"
    /\ UNCHANGED <<cs_offset, cs_items, cs_selection, current_search, cs_options>>
    /\ CsFrame

CsNext ==
    \/ cs_clear \/ cs_load \/ search_entered \/ search_next_key \/ search_prev_key
    \/ has_extended_search_request

(***************************************************************************)
(* The stack of blame requests (src/components/blame_file.rs): the blame   *)
(* key opens the blame of the file at the commit before the selected one,  *)
(* the pop key goes back.                                                  *)
(***************************************************************************)
\* how many times the blame key can go to an earlier commit of the file
MaxBlameDepth == 2

\* the last row of the table
MaxRow == 2

\* the commits that changed the file, the oldest first
FileCommits == 1..(MaxBlameDepth + 1)

Rows == 0..MaxRow

\* Option<usize>::None of BlameFileOpen::selection
NoSelection == -1

NoRequest == [some |-> FALSE, commit_id |-> 0, selection |-> NoSelection]

\* BlameFileOpen of the one file
BlameFileOpen(c, sel) == [some |-> TRUE, commit_id |-> c, selection |-> sel]

NothingRestored ==
    [some |-> FALSE, request |-> NoRequest, row |-> 0, empty |-> FALSE]

\* the last pop found the stack empty
PoppedEmpty == [NothingRestored EXCEPT !.empty = TRUE]

StackInit ==
    /\ open_request = NoRequest
    /\ blame_row = 0
    /\ file_blame = FALSE
    /\ last_blame = 0
    /\ previous_request_stack = <<>>
    /\ pushes = <<>>
    /\ restored = NothingRestored

StackFrame == UNCHANGED <<jobVars, rebaseVars, walkVars, todoVars, markVars,
                          blameVars, diffVars, optVars, comboVars, csVars,
                          tickVars, popupVars>>

\* BlameFileComponent::set_open_selection: the row after it
set_open_selection(request, row) ==
    IF request.selection # NoSelection THEN request.selection ELSE row

\* BlameFileComponent::update with the blame not loaded: the blame is
\* taken from async_blame.last() when that is the blame of the request,
\* and requested otherwise
stack_update(request, row) ==
    IF last_blame = request.commit_id
    THEN /\ file_blame' = TRUE
         /\ blame_row' = set_open_selection(request, row)
    ELSE /\ file_blame' = FALSE
         /\ blame_row' = row

\* Vec::pop taken from the front
pop_front(v) == [some |-> v # <<>>,
                 top |-> IF v # <<>> THEN v[1] ELSE <<>>,
                 rest |-> IF v # <<>> THEN Tail(v) ELSE v]

\* Vec::pop
pop(v) == [some |-> v # <<>>,
           top |-> IF v # <<>> THEN v[Len(v)] ELSE <<>>,
           rest |-> IF v # <<>> THEN SubSeq(v, 1, Len(v) - 1) ELSE v]

\* BlameFileComponent::open, the popup being opened by the application
stack_open ==
    /\ ~open_request.some
    /\ \E c \in FileCommits, sel \in Rows \cup {NoSelection} :
          LET request == BlameFileOpen(c, sel) IN
          /\ open_request' = request
          /\ stack_update(request, 0)
    /\ restored' = NothingRestored
    /\ UNCHANGED <<last_blame, previous_request_stack, pushes>>
    /\ StackFrame

\* the blame requested has been computed: update_git(Blame), update
blame_loaded ==
    /\ open_request.some /\ ~file_blame
    /\ last_blame' = open_request.commit_id
    /\ file_blame' = TRUE
    /\ blame_row' = set_open_selection(open_request, blame_row)
    /\ restored' = [restored EXCEPT !.empty = FALSE]
    /\ UNCHANGED <<open_request, previous_request_stack, pushes>>
    /\ StackFrame

\* a movement key in the loaded blame
stack_move_selection ==
    /\ file_blame
    /\ \E row \in {blame_row - 1, blame_row + 1} \cap Rows : blame_row' = row
    /\ restored' = NothingRestored
    /\ UNCHANGED <<open_request, file_blame, last_blame,
                   previous_request_stack, pushes>>
    /\ StackFrame

\* the blame key (generic_push): the walk from the selected commit finds
\* the commit that changed the file before it; push_request
push_request ==
    /\ file_blame /\ open_request.some
    /\ open_request.commit_id > 1
    /\ LET request == BlameFileOpen(open_request.commit_id - 1, blame_row) IN
       /\ previous_request_stack' =
             Append(previous_request_stack,
                    [request |-> open_request, row |-> blame_row])
       /\ open_request' = request
       /\ stack_update(request, 0)
    /\ pushes' = Append(pushes, [request |-> open_request, row |-> blame_row])
    /\ restored' = NothingRestored
    /\ UNCHANGED last_blame
    /\ StackFrame

\* the pop key (generic_pop): pop_back
pop_back ==
    /\ open_request.some
    /\ LET prev == pop(previous_request_stack) IN
       IF prev.some
       THEN /\ previous_request_stack' = prev.rest
            /\ open_request' = prev.top.request
            /\ stack_update(prev.top.request, prev.top.row)
            /\ restored' = [some |-> TRUE, request |-> pushes[Len(pushes)].request,
                            row |-> pushes[Len(pushes)].row, empty |-> FALSE]
            /\ pushes' = SubSeq(pushes, 1, Len(pushes) - 1)
       ELSE /\ restored' = PoppedEmpty
            /\ UNCHANGED <<open_request, blame_row, file_blame,
                           previous_request_stack, pushes>>
    /\ UNCHANGED last_blame
    /\ StackFrame

StackNext ==
    \/ stack_open \/ blame_loaded \/ stack_move_selection
    \/ push_request \/ pop_back

(***************************************************************************)
(* The update ticker of the event loop (src/main.rs, run_app): which       *)
(* iterations run app.update() and app.on_tick().                          *)
(***************************************************************************)
TICK_INTERVAL_INT == 120

UPDATE_INTERVAL_INT == 5000

\* the history counts the events since the last update up to here, one more
\* than the ticks that fit into the update interval
CountedEvents == (UPDATE_INTERVAL_INT \div TICK_INTERVAL_INT) + 1

RanNothing == [update |-> FALSE, on_tick |-> FALSE]

TickInit ==
    /\ update_ticker = 0
    /\ tick_pc = "loop"
    /\ tick_event = "None"
    /\ tick_ran = RanNothing
    /\ since_update = CountedEvents

TickFrame == UNCHANGED <<jobVars, rebaseVars, walkVars, todoVars, markVars,
                         blameVars, diffVars, optVars, comboVars, csVars,
                         stackVars, popupVars>>

\* update_ticker >= UPDATE_INTERVAL_INT
reached(ticker) == ticker >= UPDATE_INTERVAL_INT

\* update_ticker > UPDATE_INTERVAL_INT
exceeded(ticker) == ticker > UPDATE_INTERVAL_INT

\* one more event counted, up to CountedEvents
counted(n) == IF n < CountedEvents THEN n + 1 ELSE CountedEvents

\* an iteration of the loop with a Tick or Notify event; app.update() and
\* app.on_tick() return Ok or an error, which ends run_app
loop_tick_or_notify ==
    /\ tick_pc = "loop"
    /\ \E ev \in {"Tick", "Notify"}, update_ok, on_tick_ok \in BOOLEAN :
          LET ticker == update_ticker + TICK_INTERVAL_INT IN
          /\ tick_event' = ev
          /\ IF exceeded(ticker)
             THEN /\ update_ticker' = ticker % UPDATE_INTERVAL_INT
                  /\ tick_ran' = [update |-> TRUE, on_tick |-> update_ok]
                  /\ tick_pc' = IF update_ok /\ on_tick_ok THEN "loop"
                                ELSE "failed"
                  /\ since_update' = 0
             ELSE /\ update_ok
                  /\ update_ticker' = ticker
                  /\ tick_ran' = [update |-> FALSE, on_tick |-> TRUE]
                  /\ tick_pc' = IF on_tick_ok THEN "loop" ELSE "failed"
                  /\ since_update' = counted(since_update)
    /\ TickFrame

\* an iteration with an event of another kind
loop_other_event ==
    /\ tick_pc = "loop"
    /\ \E ev \in {"InputEvent", "AsyncEvent", "SpinnerUpdate"} :
          tick_event' = ev
    /\ tick_ran' = RanNothing
    /\ UNCHANGED <<update_ticker, tick_pc, since_update>>
    /\ TickFrame

TickNext == loop_tick_or_notify \/ loop_other_event

(***************************************************************************)
(* The external-command popup (src/components/external_command_popup.rs)   *)
(* on the list of commands of the options (src/options.rs).                *)
(***************************************************************************)
\* the most commands sent whose feedback is still to be applied
MaxInFlight == 2

\* exit_popup, toggle_workarea, enter, move_down, move_up, delete_generic,
\* assign_shortcut, clear_shortcut, clear_all_shortcut, and a function key
PopupKeys == {"Esc", "w", "Enter", "Down", "Up", "d", "=", "x", "X", "F1"}

PopupInit ==
    /\ popup_visible = FALSE
    /\ popup_focused = "Input"
    /\ selected_idx = 0
    /\ shortcut_state = "Idle"
    /\ cmd_pending = FALSE
    /\ in_flight = 0
    /\ popup_key = "none"
    /\ popup_panicked = FALSE

PopupFrame ==
    UNCHANGED <<jobVars, rebaseVars, walkVars, todoVars, markVars, blameVars,
                diffVars, commit_msgs, branch_shortcuts, msgs_added, opt_op,
                comboVars, csVars, stackVars, tickVars>>

\* Options::remove_extern_command: the index it returns
removed_idx(idx) ==
    IF idx < Len(extern_cmds)
    THEN (IF idx = Len(extern_cmds) - 1 THEN saturating_sub(idx, 1) ELSE idx)
    ELSE 0

\* Options::find_extern_cmd_for_shortcut: the place in the list, or -1
find_extern_cmd_for_shortcut(k) ==
    IF \E i \in 1..Len(extern_cmds) : extern_cmds[i][2] = k
    THEN CHOOSE i \in 1..Len(extern_cmds) :
            /\ extern_cmds[i][2] = k
            /\ \A j \in 1..(i - 1) : extern_cmds[j][2] # k
    ELSE -1

\* ExternalCommandPopupComponent::show, called by the application
popup_show ==
    /\ ~popup_visible /\ ~popup_panicked
    /\ popup_visible' = TRUE
    /\ popup_focused' = IF extern_cmds = <<>> THEN "Input" ELSE "List"
    /\ popup_key' = "none"
    /\ UNCHANGED <<selected_idx, shortcut_state, cmd_pending, in_flight,
                   popup_panicked, extern_cmds>>
    /\ PopupFrame

\* ExternalCommandPopupComponent::run_command_ui followed by hide
run_and_hide(cmd) ==
    /\ in_flight < MaxInFlight
    /\ cmd_pending' = TRUE
    /\ in_flight' = in_flight + 1
    /\ extern_cmds' = add_extern_command(cmd)
    /\ popup_visible' = FALSE
    /\ UNCHANGED <<popup_focused, selected_idx, shortcut_state, popup_panicked>>

\* the key changes nothing but, perhaps, the text of the command line
popup_unchanged ==
    UNCHANGED <<popup_visible, popup_focused, selected_idx, shortcut_state,
                cmd_pending, in_flight, popup_panicked, extern_cmds>>

\* the enter key: the selected command of the list, or the text of the
\* command line, is run; the index into the list panics when it is out of
\* bounds
popup_enter ==
    IF popup_focused = "List"
    THEN IF selected_idx < Len(extern_cmds)
         THEN run_and_hide(extern_cmds[selected_idx + 1][1])
         ELSE /\ popup_panicked' = TRUE
              /\ UNCHANGED <<popup_visible, popup_focused, selected_idx,
                             shortcut_state, cmd_pending, in_flight,
                             extern_cmds>>
    ELSE \E cmd \in Cmds : run_and_hide(cmd)

\* the branch of the keys of the list, the list being not empty
popup_list_key(k) ==
    IF shortcut_state = "Assign"
    THEN /\ shortcut_state' = "Idle"
         /\ extern_cmds' = [extern_cmds EXCEPT ![selected_idx + 1] = <<@[1], k>>]
         /\ UNCHANGED <<popup_visible, popup_focused, selected_idx,
                        cmd_pending, in_flight, popup_panicked>>
    ELSE IF k = "Down"
    THEN /\ selected_idx' = IF selected_idx < Len(extern_cmds) - 1
                            THEN selected_idx + 1 ELSE selected_idx
         /\ UNCHANGED <<popup_visible, popup_focused, shortcut_state,
                        cmd_pending, in_flight, popup_panicked, extern_cmds>>
    ELSE IF k = "Up"
    THEN /\ selected_idx' = IF selected_idx > 0
                            THEN selected_idx - 1 ELSE selected_idx
         /\ UNCHANGED <<popup_visible, popup_focused, shortcut_state,
                        cmd_pending, in_flight, popup_panicked, extern_cmds>>
    ELSE IF k = "d"
    THEN /\ selected_idx' = removed_idx(selected_idx)
         /\ extern_cmds' = IF selected_idx < Len(extern_cmds)
                           THEN Remove(extern_cmds, selected_idx)
                           ELSE extern_cmds
         /\ UNCHANGED <<popup_visible, popup_focused, shortcut_state,
                        cmd_pending, in_flight, popup_panicked>>
    ELSE IF k = "="
    THEN /\ shortcut_state' = "Assign"
         /\ UNCHANGED <<popup_visible, popup_focused, selected_idx,
                        cmd_pending, in_flight, popup_panicked, extern_cmds>>
    ELSE IF k = "x"
    THEN /\ extern_cmds' =
               [extern_cmds EXCEPT ![selected_idx + 1] = <<@[1], NoShortcut>>]
         /\ UNCHANGED <<popup_visible, popup_focused, selected_idx,
                        shortcut_state, cmd_pending, in_flight, popup_panicked>>
    ELSE IF k = "X"
    THEN /\ extern_cmds' = [i \in 1..Len(extern_cmds) |->
                               <<extern_cmds[i][1], NoShortcut>>]
         /\ UNCHANGED <<popup_visible, popup_focused, selected_idx,
                        shortcut_state, cmd_pending, in_flight, popup_panicked>>
    ELSE IF find_extern_cmd_for_shortcut(k) # -1
    THEN run_and_hide(extern_cmds[find_extern_cmd_for_shortcut(k)][1])
    ELSE popup_unchanged

\* Component::event of the popup for a key event
popup_event ==
    /\ popup_visible /\ ~popup_panicked
    /\ \E k \in PopupKeys :
          /\ popup_key' = k
          /\ IF k = "Esc"
             THEN /\ popup_visible' = FALSE
                  /\ UNCHANGED <<popup_focused, selected_idx, shortcut_state,
                                 cmd_pending, in_flight, popup_panicked,
                                 extern_cmds>>
             ELSE IF k = "w"
             THEN /\ popup_focused' = IF popup_focused = "Input" THEN "List"
                                      ELSE "Input"
                  /\ UNCHANGED <<popup_visible, selected_idx, shortcut_state,
                                 cmd_pending, in_flight, popup_panicked,
                                 extern_cmds>>
             ELSE IF k = "Enter" THEN popup_enter
             ELSE IF popup_focused = "List" /\ extern_cmds # <<>>
             THEN popup_list_key(k)
             ELSE popup_unchanged
    /\ PopupFrame

\* AsyncJobExternCmdFeedback::visit in the drain of the event loop:
\* finish_pending_command
finish_pending_command ==
    /\ in_flight > 0
    /\ in_flight' = in_flight - 1
    /\ cmd_pending' = FALSE
    /\ popup_key' = "none"
    /\ UNCHANGED <<popup_visible, popup_focused, selected_idx, shortcut_state,
                   popup_panicked, extern_cmds>>
    /\ PopupFrame

PopupNext == popup_show \/ popup_event \/ finish_pending_command

(***************************************************************************)
(* Specifications                                                          *)
(***************************************************************************)
MoreInit ==
    ComboInit /\ CsInit /\ StackInit /\ TickInit /\ PopupInit

LaterInit == TodoInit /\ MarkInit /\ BlameInit /\ DiffInit /\ OptInit /\ MoreInit

Init == JobsInit /\ RebaseInit /\ WalkIdle /\ LaterInit

SpecJobs == Init /\ [][JobsNext]_vars /\ JobsFairness

SpecRebase == Init /\ [][RebaseNext]_vars /\ RebaseFairness

InitWalk == JobsInit /\ RebaseInit /\ WalkInit /\ LaterInit

SpecWalk == InitWalk /\ [][WalkNext]_vars

SpecTodo == Init /\ [][TodoNext]_vars

SpecMarks == Init /\ [][MarkNext]_vars

SpecBlame == Init /\ [][BlameNext]_vars

SpecDiff == Init /\ [][DiffNext]_vars

SpecOptions == Init /\ [][OptNext]_vars

SpecDiffKeys == Init /\ [][DiffKeysNext]_vars

SpecCombo == Init /\ [][ComboNext]_vars

SpecCommitSearch == Init /\ [][CsNext]_vars

SpecBlameStack == Init /\ [][StackNext]_vars

SpecTick == Init /\ [][TickNext]_vars

SpecPopup == Init /\ [][PopupNext]_vars


(***************************************************************************)
(* Properties of the job queue and the UI loop                             *)
(***************************************************************************)
IsPrefix(s, t) == Len(s) <= Len(t) /\ SubSeq(t, 1, Len(s)) = s

\* the feedback values the jobs of `ids` produced, in that order
Produced(ids) ==
    LET some == SelectSeq(ids, LAMBDA i : run(sent[i]) # None)
    IN  [k \in 1..Len(some) |-> run(sent[some[k]])]

UILeftLoop == upc \in {"shutdown", "join", "returned", "failed"}

\* C1: jobs are started in the order they were sent, one at a time (a job is
\* started only when the run of the previous one has returned), and the
\* feedback values reach the feedback channel, and are visited by the UI
\* thread, in the order in which the jobs produced them.
JobsFifoFeedbackInOrder ==
    /\ IsPrefix(started, [i \in 1..Len(sent) |-> i])
    /\ IsPrefix(returned, started)
    /\ Len(started) <= Len(returned) + 1
    /\ IsPrefix(fbSent, Produced(returned))
    /\ app.visited \o feedback = fbSent

JobsFifoWitness ==
    /\ Len(app.visited) >= 2
    /\ Len(started) >= 3
    /\ Len(jobs) >= 1

StopIdx == CHOOSE i \in 1..Len(sent) : sent[i].stop

StopSent == \E i \in 1..Len(sent) : sent[i].stop

StopSafe ==
    /\ StopSent /\ wpc = "exit" =>
          /\ returned = [i \in 1..StopIdx |-> i]
          /\ started = returned
          /\ jobs = <<>>
    /\ upc = "returned" => StopSent /\ wpc = "exit"
    /\ upc = "join" /\ wpc = "exit" => cur.stop

\* C4: once the sentinel has been sent the worker runs every job queued
\* before it, then the sentinel, and then leaves run_loop and starts nothing
\* more; so the join of run_app returns once those jobs have terminated.
StopJobEndsWorker ==
    /\ []StopSafe
    /\ [][wpc = "exit" => wpc' = "exit" /\ started' = started]_vars
    /\ (upc = "join") ~> (upc = "returned")

StopJobWitness ==
    /\ upc = "returned"
    /\ Len(returned) >= 3
    /\ feedback # <<>>

\* C5: in every iteration of the UI loop, the spinner's included, every
\* feedback value pending when the iteration began has been visited, by the
\* UI thread, before the iteration's event is handled; no step of the worker
\* changes App, and App's visits happen in the drain of the UI loop only.
FeedbackDrainedOnUiThread ==
    /\ [](upc = "handle" => Range(snap) \subseteq Range(app.visited))
    /\ [][upc = "drain" /\ upc' = "handle" => feedback = <<>>]_vars
    /\ [][WorkerNext => app' = app]_vars
    /\ [][app' # app => UIDrain \/ UIHandle]_vars

FeedbackDrainedWitness ==
    /\ upc = "handle"
    /\ event = "SpinnerUpdate"
    /\ Len(snap) >= 2

NotifyAfterFeedback ==
    \A k \in 1..Len(notified) :
        run(sent[notified[k]]) # None => run(sent[notified[k]]) \in Range(fbSent)

NoLostWakeup ==
    upc = "select" /\ ~first_update /\ feedback # <<>> =>
        rx_app > 0 \/ wpc = "notify"

\* C6 as stated: every job that was run is followed by exactly one
\* notification, sent after the job's feedback; so every feedback value put
\* on the channel is eventually visited.
EveryJobNotifiedFeedbackApplied ==
    /\ [](wpc \in {"recv", "run", "exit"} => notified = returned)
    /\ []NotifyAfterFeedback
    /\ []NoLostWakeup
    /\ \A k \in 1..(MaxJobs + 1) :
          (k \in Range(feedback)) ~> (k \in Range(app.visited))

\* C6 as amended: as long as run_app has not returned, every job that was run
\* is followed by exactly one notification, sent after the job's feedback
\* (a failed send ends the worker without one); a feedback value on the
\* channel never leaves the UI thread waiting in select_event without a
\* notification pending or about to be sent, and it is visited unless the
\* loop ends (quit or error) before its next drain.
NotifiedWhileUiAlive ==
    /\ [](IsPrefix(notified, returned))
    /\ [](alive /\ wpc \in {"recv", "run", "exit"} => notified = returned)
    /\ [](alive /\ wpc \in {"send", "notify"} => Len(notified) + 1 = Len(returned))
    /\ []NotifyAfterFeedback
    /\ []NoLostWakeup
    /\ \A k \in 1..(MaxJobs + 1) :
          (k \in Range(feedback)) ~> (k \in Range(app.visited) \/ UILeftLoop)

NotifiedWitness ==
    /\ upc = "handle"
    /\ event = "AsyncApp"
    /\ snap # <<>>
    /\ Len(notified) >= 2
    /\ Len(app.visited) >= 2

(***************************************************************************)
(* Properties of the interactive-rebase handshake                          *)
(***************************************************************************)
\* the place of the first e in the history, 0 when there is none
Pos(e) ==
    IF \E i \in 1..Len(rhist) : rhist[i] = e
    THEN CHOOSE i \in 1..Len(rhist) :
            rhist[i] = e /\ \A j \in 1..(i - 1) : rhist[j] # e
    ELSE 0

Before(a, b) == 0 < Pos(a) /\ Pos(a) < Pos(b)

\* C2: the child writes the path into the string slot before it signals
\* ready, the parent reads the slot only after its wait on ready returned
\* Ok, and the path the mutator gets is the path the child wrote: the one on
\* its command line, not empty and not half written.
PathHandedOverIntact ==
    /\ Pos("signal_ready") > 0 => Before("set_str", "signal_ready")
    /\ Pos("ready_ok") > 0 => Before("signal_ready", "ready_ok")
    /\ Pos("get_str") > 0 =>
          /\ Before("ready_ok", "get_str")
          /\ todo_file = file_path
          /\ todo_file.len > 0
    /\ rpc \in {"get_str", "mutate"} => get_str = file_path
    /\ Pos("mutator_ok") > 0 => Before("get_str", "mutator_ok")

PathHandedOverWitness ==
    /\ Pos("mutator_ok") > 0
    /\ todo_file = Str(4000, 2)
    /\ todo = "mutated"

\* C3: when rebase_interactive returns Ok, shutdown was signaled only after
\* the mutator had returned Ok, the child left wait_shutdown, and git read
\* the todo file, only after that signal, and git had exited before the
\* return; a child never leaves wait_shutdown, and git never reads the todo,
\* before a shutdown signal of the parent.
ShutdownAfterMutatorReturnAfterGit ==
    /\ rresult = "Ok" =>
          /\ Before("mutator_ok", "signal_shutdown")
          /\ Before("signal_shutdown", "left_wait")
          /\ Before("left_wait", "git_read")
          /\ Before("git_read", "git_exit")
          /\ Before("git_exit", "return")
          /\ git_todo = "mutated"
    /\ Pos("signal_shutdown") > 0 /\ rpc # "returned" => Pos("mutator_ok") > 0
    /\ Pos("left_wait") > 0 => Before("signal_shutdown", "left_wait")
    /\ Pos("git_read") > 0 => Before("left_wait", "git_read")

ShutdownAfterMutatorWitness ==
    /\ rresult = "Ok"
    /\ upc = "select"
    /\ queue = <<"Update">>

ReadyTimedOut == rpc = "returned" /\ Pos("spawn") > 0 /\ Pos("ready_ok") = 0

\* C7: when the wait on ready ends without the child having signaled,
\* rebase_interactive returns the error "Waiting for a sequence editor to
\* start failed ..": the mutator was never called and the todo file is as
\* git wrote it, now and later, and the helper script is gone; the wait
\* always ends.
ReadyTimeoutAborts ==
    /\ [](ReadyTimedOut =>
             /\ rresult = "WaitReadyFailed"
             /\ Pos("get_str") = 0
             /\ Pos("mutator_ok") = 0
             /\ todo = "original"
             /\ script = "absent")
    /\ (rpc = "wait_ready") ~> (rpc # "wait_ready")

ReadyTimeoutWitness ==
    /\ ReadyTimedOut
    /\ cpc = "wait_shutdown"
    /\ queue = <<"ShowErrorMsg", "Update">>

RebaseInProgress == rpc \notin {"idle", "returned"}

\* C8: the thread that runs rebase_interactive and blocks in its waits is a
\* worker thread, never the UI thread: while a drop or fixup rebase is in
\* progress the UI loop can select and handle events.
RebaseOffUiThread ==
    RebaseInProgress =>
        /\ rthread # "ui"
        /\ upc \in {"select", "drain", "handle"}

(***************************************************************************)
(* Log walker properties                                                   *)
(***************************************************************************)
NoDuplicates(s) == \A i, j \in 1..Len(s) : i # j => s[i] # s[j]

\* commits reachable from the start commit
Reachable == Reach(repo, {HeadCommit})

\* C9: over all the read calls made on one walker no commit is appended to
\* out twice and none is examined twice, merges included; what is left in
\* the heap has not been examined, so a call goes on after the commits the
\* calls before it examined; a read that finds the heap empty appends
\* nothing and returns 0.
ReadsNeverRepeat ==
    /\ NoDuplicates(out)
    /\ NoDuplicates(examined)
    /\ Range(walker.commits) \cap Range(examined) = {}
    /\ Range(out) \subseteq Range(examined)
    /\ last.heap_empty /\ ret.ok => last.appended = <<>> /\ ret.count = 0

\* C9 case: a commit with two children, read one commit at a time until
\* everything is out, and one more read after the heap has emptied
ReadsNeverRepeatWitness ==
    /\ \E c, d, e \in Range(out) :
          d # e /\ c \in repo.parents[d] /\ c \in repo.parents[e]
    /\ walker.limit = 1
    /\ Range(out) = Reachable
    /\ last.heap_empty /\ ret.ok

OutNonIncreasingInTime ==
    \A i, j \in 1..Len(out) : i < j => repo.time[out[i]] >= repo.time[out[j]]

\* the filter's answer for the commit c (true when no filter is set)
Included(c) == ~walker.filter.some \/ c \in walker.filter.accept

IsMerge(c) == Cardinality(repo.parents[c]) > 1

RejectsAll == walker.filter.some /\ walker.filter.accept = {}

AppendsIncludedInOrder ==
    /\ out = SelectSeq(examined, Included)
    /\ last.appended = SelectSeq(last.seen, Included)
    /\ walker.filter.skip_merges => \A c \in Range(out) : ~IsMerge(c)

\* C12 as stated: out holds exactly the examined commits the filter answers
\* true for, in the order they were examined; a filter that rejects every
\* commit leaves out empty while a call examines at most limit commits; with
\* filter_by_path(path, true) no merge is appended.
ReadAppendsIncluded ==
    /\ AppendsIncludedInOrder
    /\ RejectsAll => out = <<>> /\ Len(last.seen) <= walker.limit

\* C12 as amended: the same, where a call examines at most limit commits for
\* a limit of 1 or more; with limit 0 the call is not limited and, without a
\* stopper, examines every reachable commit.
ReadAppendsIncludedPositiveLimit ==
    /\ AppendsIncludedInOrder
    /\ RejectsAll =>
          /\ out = <<>>
          /\ walker.limit >= 1 => Len(last.seen) <= walker.limit
          /\ walker.limit = 0 /\ ~walker.stopper.some /\ lpc = "read" /\ ret.ok
                => Range(examined) = Reachable

\* C12 case: a walker with filter_by_path(path, true) has examined a merge
\* and left it out, and has appended another commit
ReadAppendsIncludedWitness ==
    /\ walker.filter.skip_merges
    /\ \E c \in Range(examined) : IsMerge(c) /\ c \notin Range(out)
    /\ out # <<>>
    /\ walker.limit = 2

(***************************************************************************)
(* Rebase todo properties                                                  *)
(***************************************************************************)
\* the words InteractiveOperation::try_parse knows
KnownWords ==
    {op_to_string(op) : op \in InteractiveOperations}
        \cup {op_short(op) : op \in InteractiveOperations}

FirstTokenUnknown(l) ==
    LET i == split_ascii_whitespace(l)
    IN  i # <<>> /\ ~(Len(i[1]) = 1 /\ i[1][1] \in KnownWords)

\* C13: parsing the to_string() of an accepted line yields the same
\* operation, short hash and full hash; the long and the one-letter form of
\* every operation parse to that operation; a line whose first token is not
\* a known operation fails with an 'Unknown operation' error.
TodoLineRoundTrip ==
    /\ ppc = "reparsed" =>
          /\ reparsed.ok
          /\ reparsed.op = rebase_commit.op
          /\ reparsed.hash = rebase_commit.hash
          /\ reparsed.full_hash = rebase_commit.full_hash
    /\ \A op \in InteractiveOperations :
          /\ InteractiveOperation_try_parse(<<op_to_string(op)>>) = ParseOk(op, <<>>, <<>>)
          /\ InteractiveOperation_try_parse(<<op_short(op)>>) = ParseOk(op, <<>>, <<>>)
    /\ ppc # "idle" /\ FirstTokenUnknown(line) =>
          ~rebase_commit.ok /\ rebase_commit.err = "Unknown operation"

\* C13 case: a line in the one-letter form with a quoted full hash has been
\* parsed, printed and parsed again
TodoLineRoundTripWitness ==
    /\ ppc = "reparsed"
    /\ line = <<"p", WS, "abc", WS, Quote, "abc">>
    /\ reparsed.full_hash = <<"abc">>
    /\ printed = <<"pick", WS, "abc", WS, Quote, "abc", Quote>>

\* the places of the lines of the file f that parse, in file order
ParsingLines(f) == SelectSeq([k \in 1..Len(f) |-> k],
                             LAMBDA k : RebaseCommit_try_parse(f[k]).ok)

\* C14: the file the mutator writes has one line for each line of the
\* original that parses, in the original order, with the same short and full
\* hash; its operation is Drop (Fixup) if the full hash is in the given set
\* and the original operation otherwise; lines that do not parse are left
\* out.
MutatorRewritesMarked ==
    ppc = "mutated" =>
        LET idx == ParsingLines(todo_lines)
        IN  /\ Len(written) = Len(idx)
            /\ \A k \in 1..Len(idx) :
                  LET old == RebaseCommit_try_parse(todo_lines[idx[k]])
                      new == RebaseCommit_try_parse(written[k])
                  IN  /\ new.ok
                      /\ new.hash = old.hash
                      /\ new.full_hash = old.full_hash
                      /\ new.op = IF old.full_hash \in hashed_commits
                                  THEN new_op ELSE old.op

\* C14 case: a fixup of one commit in a file with a line for it, a line for
\* another commit and a line that does not parse
MutatorRewritesMarkedWitness ==
    /\ ppc = "mutated"
    /\ new_op = "Fixup"
    /\ hashed_commits = {<<"def">>}
    /\ todo_lines = << <<"pick", WS, "abc", WS, Quote, "abc", Quote>>,
                       <<"#", WS, "abc", WS, "def">>,
                       <<"p", WS, "def", WS, "def">> >>
    /\ written = << <<"pick", WS, "abc", WS, Quote, "abc", Quote>>,
                    <<"fixup", WS, "def", WS, Quote, "def", Quote>> >>

(***************************************************************************)
(* Commit list properties                                                  *)
(***************************************************************************)
\* the oldest of the marked commits v: the one lowest in the log
OldestMarked(v) == CHOOSE c \in Range(marked_ids(v)) :
                       \A d \in Range(marked_ids(v)) : d <= c

\* C15: when a drop is confirmed, the base given to the rebase is the first
\* parent of the oldest marked commit, so every marked commit is above the
\* base in the log.
DropBaseBelowAllMarked ==
    handled.op = "drop" /\ handled.result \in {"Ok", "Err"} =>
        /\ handled.base = SubSeq(parent_ids(OldestMarked(handled.before)), 1, 1)
        /\ \A c \in Range(marked_ids(handled.before)) : c < handled.base[1]

Confirmed == handled.op \in {"drop", "fixup", "cherrypick"}

\* C16: after a confirmed drop, fixup or cherry-pick the marked list is
\* empty if the operation succeeded and as before if it failed, and then an
\* error message is queued; the cherry-pick loop attempts nothing after the
\* first failure and keeps what it applied; a full update is requested in
\* every case.
MarkedClearedIffSucceeded ==
    [][Confirmed' /\ handled' # handled =>
          /\ handled'.result \in {"Ok", "Err"}
          /\ handled'.result = "Ok" => marked' = <<>> /\ "ShowErrorMsg" \notin Range(pushed')
          /\ handled'.result = "Err" => marked' = marked /\ "ShowErrorMsg" \in Range(pushed')
          /\ handled'.op = "cherrypick" =>
                /\ IsPrefix(handled'.attempted, rev(marked_ids(marked)))
                /\ IsPrefix(handled'.applied, handled'.attempted)
                /\ handled'.result = "Err" =>
                      Len(handled'.attempted) = Len(handled'.applied) + 1
          /\ "Update" \in Range(pushed')]_vars

\* C17: the marked list is strictly increasing in its index and holds no
\* commit twice, whatever marks, selection moves and batch loads came before.
MarkedStrictlySorted ==
    \A i, j \in 1..Len(marked) :
        i < j => marked[i].idx < marked[j].idx /\ marked[i].id # marked[j].id

(***************************************************************************)
(* Blame search properties                                                 *)
(***************************************************************************)
\* every occurrence of the needle in the file, in file order
AllOccurrences(ls, str) ==
    LET occ == {LinePos(i, o) : i \in 0..(Len(ls) - 1),
                                o \in 0..(MaxLineChars + MaxLineChars)}
        is  == {q \in occ : q.offset \in Occurrences(LineBytes(ls, q.line), utf8(str))}
    IN  is

PosBefore(p, q) == p.line < q.line \/ (p.line = q.line /\ p.offset < q.offset)

FirstOf(S) == CHOOSE p \in S : \A q \in S : p = q \/ PosBefore(p, q)

\* the occurrence after p in file order, the first one after the last
NextOccurrence(S, p) ==
    IF \E q \in S : PosBefore(p, q)
    THEN FirstOf({q \in S : PosBefore(p, q)})
    ELSE FirstOf(S)

SearchNextStep ==
    /\ blame_state = "Normal" /\ last_key' = "search_next"
    /\ is_valid(search)
    /\ AllOccurrences(blame_lines, search.str.s) # {}

\* C18: with a needle that occurs in the file, search_next with line 0
\* selected moves to the first occurrence in the file, and search_next
\* after search_next moves to the next occurrence in file order, from the
\* last one to the first: it visits every occurrence once before it wraps.
SearchNextVisitsAllInOrder ==
    [][SearchNextStep =>
          LET occ == AllOccurrences(blame_lines, search.str.s)
          IN  /\ blame_state' = "Normal"
              /\ search'.found \in occ
              /\ table_state' = search'.found.line
              /\ table_state = 0 /\ last_key # "search_next"
                    => search'.found = FirstOf(occ)
              /\ last_key = "search_next"
                    => search'.found = NextOccurrence(occ, search.found)]_vars

\* the line the selection is expected on in SearchEditing: the first line
\* from the start line on, wrapping around, that contains the needle, the
\* start line if none does
ExpectedLine(ls, str, start_line) ==
    LET has(i) == find(LineBytes(ls, i), utf8(str)) >= 0
        later  == {i \in start_line..(Len(ls) - 1) : has(i)}
        before == {i \in 0..(start_line - 1) : has(i)}
    IN  IF later # {} THEN CHOOSE i \in later : \A j \in later : i <= j
        ELSE IF before # {} THEN CHOOSE i \in before : \A j \in before : i <= j
        ELSE start_line

\* C19: in SearchEditing the selection after a keystroke is given by the
\* needle and the position where the search was entered alone; Esc puts the
\* selection back on the line where the search was entered.
IncrementalSearchSelection ==
    [][blame_state = "SearchEditing" =>
          /\ blame_state' # "Panicked"
          /\ last_key' \in {"char", "backspace"} =>
                /\ search'.start = search.start
                /\ table_state' = ExpectedLine(blame_lines, search'.str.s,
                                               search.start.line)
          /\ last_key' = "esc" => table_state' = search.start.line]_vars

(***************************************************************************)
(* Properties of the diff selection                                        *)
(***************************************************************************)
\* the step of modify_selection: the selection before it, the key, and the
\* selection after it
AnchorKept ==
    diff_key.key \in Directions =>
        /\ get_start(diff_selection) = get_start(diff_key.before)
        /\ get_end(diff_selection) =
             IF diff_key.key = "Up"
             THEN (IF get_end(diff_key.before) = 0 THEN 0
                   ELSE get_end(diff_key.before) - 1)
             ELSE (IF get_end(diff_key.before) >= lines_count
                   THEN lines_count
                   ELSE get_end(diff_key.before) + 1)

\* C20: extending the diff selection up or down, any number of times in any
\* order, leaves the anchor (get_start) where it was and moves the other end
\* by one line in the direction of the key (it stays at line 0 and at the
\* line count, the ends of its range); and in every selection get_top is
\* less than or equal to get_bottom.
ExtendKeepsAnchor ==
    /\ AnchorKept
    /\ get_top(diff_selection) <= get_bottom(diff_selection)

\* the selection was extended twice upwards past its anchor, so the end is
\* above the anchor
ExtendKeepsAnchorWitness ==
    /\ diff_key.key = "Up"
    /\ diff_key.before.kind = "Multiple"
    /\ get_end(diff_selection) + 2 = get_start(diff_selection)
    /\ get_top(diff_selection) < get_bottom(diff_selection)

(***************************************************************************)
(* Properties of the options                                               *)
(***************************************************************************)
\* no name occurs twice as the first field of the entries of v
NoNameTwice(v) ==
    \A i, j \in 1..Len(v) : v[i][1] = v[j][1] => i = j

\* C22: add_extern_command leaves the command list unchanged when the
\* command is already in it, and otherwise inserts it without shortcut at
\* index 0; after any sequence of add, remove and shortcut operations no
\* command string occurs twice in the list.
AddExternCommandNoDuplicate ==
    /\ []NoNameTwice(extern_cmds)
    /\ [][opt_op'.op = "add_extern_command" =>
            IF \E i \in 1..Len(extern_cmds) : extern_cmds[i][1] = opt_op'.arg
            THEN extern_cmds' = extern_cmds
            ELSE /\ extern_cmds'[1] = <<opt_op'.arg, NoShortcut>>
                 /\ Tail(extern_cmds') = extern_cmds]_vars

\* a command that has a shortcut was added again, with another command in
\* front of it
AddExternCommandNoDuplicateWitness ==
    /\ opt_op.op = "add_extern_command"
    /\ Len(extern_cmds) = 2
    /\ extern_cmds[2] = <<opt_op.arg, "F1">>

\* C23: after any sequence of add_commit_msg calls the history holds at most
\* 20 messages, and they are the most recently added ones in insertion
\* order (adding to a full history discards exactly the oldest entry).
CommitMsgsAreTheNewest ==
    /\ Len(commit_msgs) <= COMMIT_MSG_HISTRY_LENGTH
    /\ Len(commit_msgs) = min(msgs_added, COMMIT_MSG_HISTRY_LENGTH)
    /\ \A i \in 1..Len(commit_msgs) :
          commit_msgs[i] = msgs_added - Len(commit_msgs) + i

\* two messages were added to a full history
CommitMsgsAreTheNewestWitness ==
    /\ msgs_added = COMMIT_MSG_HISTRY_LENGTH + 2
    /\ commit_msgs[1] = 3

\* C24: each branch name occurs at most once in the shortcut list; removing
\* the shortcut of a branch that has none changes nothing (so a second
\* removal changes nothing); clear_all_branch_shortcuts leaves the list empty.
BranchShortcutsUnique ==
    /\ []NoNameTwice(branch_shortcuts)
    /\ [](opt_op.op = "remove_shortcut_for_branch" =>
             \A i \in 1..Len(branch_shortcuts) :
                 branch_shortcuts[i][1] # opt_op.arg)
    /\ [][/\ opt_op'.op = "remove_shortcut_for_branch"
              /\ opt_op = opt_op'
            => branch_shortcuts' = branch_shortcuts]_vars
    /\ [](opt_op.op = "clear_all_branch_shortcuts" => branch_shortcuts = <<>>)

\* a branch that has a shortcut was given another one, after another branch
\* got its shortcut
BranchShortcutsUniqueWitness ==
    /\ opt_op.op = "assign_shortcut_for_branch"
    /\ Len(branch_shortcuts) = 2
    /\ branch_shortcuts[1] = <<opt_op.arg, "F2">>

(***************************************************************************)
(* Properties of the key events of the diff view                           *)
(***************************************************************************)
\* no search and no copy is in progress
NoSearchNoCopy ==
    diff_search.search.kind = "None" /\ copy_op.state = "None"

\* the index of the last line of the diff shown; 0 when it has no line
LastLine == IF lines_count = 0 THEN 0 ELSE lines_count - 1

\* C21: with no search and no copy in progress, decimal digits accumulate
\* into the pending number, and a following Up moves the selection up by that
\* number of lines, clamped at line 0, a following Down moves it down by that
\* number, clamped at the last line; the result is a single-line selection
\* and the pending number is cleared.
NumericPrefixMoves ==
    [][NoSearchNoCopy =>
        /\ to_digit(key_event') # -1 =>
              pending_movement' =
                  SomeNumber(pending_movement.n * 10 + to_digit(key_event'))
        /\ pending_movement.some /\ key_event' \in {"Up", "Down"} =>
              /\ diff_panicked' = FALSE
              /\ pending_movement' = NoNumber
              /\ diff_selection' =
                    Single(IF key_event' = "Up"
                           THEN max(get_start(diff_selection)
                                        - pending_movement.n, 0)
                           ELSE min(get_start(diff_selection)
                                        + pending_movement.n, LastLine))
       ]_vars

\* the key is handed to the copy machine: no search consumes it, and copy_op
\* is not None or the key is the copy key reaching the end of event()
SearchConsumes(k) ==
    \/ diff_search.search.kind # "None" /\ k \in {"Enter", "Esc"}
    \/ diff_search.search.kind = "Search" /\ k \in {"n", "N"}
    \/ diff_search.search.kind = "IncSearch" /\ k \in CharKeys

\* the copy of the terminal state was executed: the state is noted, and the
\* clipboard was written when a diff is shown (for Hunk: and a hunk selected)
Executed(state, n) ==
    /\ clipboard'.op = CopyState(state, n)
    /\ copy_op' = CopyNone
    /\ diff.some /\ (state = "Hunk" => selected_hunk.some) => clipboard'.copied

\* C25: the copy state is None, Pending or Size(n) after every key event.
\* For the keys handed to the copy machine (no search consumes the key, no
\* number is pending for a movement): the copy key on a single-line
\* selection takes None to Pending; in Pending the copy key, the hunk key, Up
\* and Down lead to Line, Hunk, LinesUp(1) and LinesDown(1), a digit d to
\* Size(d); in Size(s) a digit leads to Size(10s+d), Up and Down to
\* LinesUp(s) and LinesDown(s); any other key resets the state to None; each
\* terminal state executes its copy and is reset to None in the same event.
CopyStateMachine ==
    /\ [](copy_op.state \in {"None", "Pending", "Size"})
    /\ [][key_event' # "none" /\ ~diff_panicked' /\ ~SearchConsumes(key_event') =>
          LET k == key_event' IN
          /\ copy_op.state = "None" /\ ~pending_movement.some /\ k = "y"
                /\ diff_selection.kind = "Single"
                => copy_op' = CopyState("Pending", 0) /\ ~clipboard'.copied
          /\ copy_op.state = "Pending" =>
                CASE k = "y" -> Executed("Line", 0)
                  [] k = "h" -> Executed("Hunk", 0)
                  [] k = "Up" -> Executed("LinesUp", 1)
                  [] k = "Down" -> Executed("LinesDown", 1)
                  [] to_digit(k) # -1 -> copy_op' = CopyState("Size", to_digit(k))
                  [] OTHER -> copy_op' = CopyNone /\ clipboard' = NotCopied
          /\ copy_op.state = "Size" =>
                CASE k = "Up" -> Executed("LinesUp", copy_op.n)
                  [] k = "Down" -> Executed("LinesDown", copy_op.n)
                  [] to_digit(k) # -1 ->
                       copy_op' = CopyState("Size", 10 * copy_op.n + to_digit(k))
                  [] OTHER -> copy_op' = CopyNone /\ clipboard' = NotCopied
         ]_vars

\* y, 1, 2 and Up were typed: LinesUp(12) was executed from Size(12)
CopyStateMachineWitness ==
    /\ key_event = "Up"
    /\ clipboard.op = CopyState("LinesUp", 12)
    /\ clipboard.copied
    /\ copy_op = CopyNone

\* the lines of the hunk that contains line l, in order
HunkLinesOf(l) ==
    LET h == CHOOSE i \in 0..(Len(hunks) - 1) :
                 hunk_min(hunks, i) <= l /\ l < hunk_min(hunks, i) + hunks[i + 1]
    IN  [j \in 1..hunks[h + 1] |-> hunk_min(hunks, h) + j - 1]

\* C26: the terminal Hunk transition copies exactly the lines of the hunk
\* that contains the selected line, every line of it and no line of another
\* hunk, and afterwards the selection is the single line selected before.
HunkCopiesItsHunk ==
    [][clipboard'.op.state = "Hunk" /\ get_start(diff_selection) < lines_count =>
          /\ clipboard'.copied
          /\ clipboard'.lines = HunkLinesOf(get_start(diff_selection))
          /\ diff_selection' = diff_selection
      ]_vars

\* the lines from a to b in order
FromTo(a, b) == [j \in 1..(b - a + 1) |-> a + j - 1]

\* C27: the terminal LinesUp(n) and LinesDown(n) transitions copy n lines in
\* the direction starting from the selected line, fewer only where the first
\* or the last line of the diff is reached; afterwards the selection is the
\* single line selected before.
LinesCopiesCount ==
    [][clipboard'.op.state \in {"LinesUp", "LinesDown"} /\ lines_count > 0 =>
          LET l == get_start(diff_selection)
              n == clipboard'.op.n
          IN
          /\ diff_selection' = diff_selection
          /\ n > 0 =>
                clipboard'.lines =
                    IF clipboard'.op.state = "LinesUp"
                    THEN FromTo(max(l - n + 1, 0), l)
                    ELSE FromTo(l, min(l + n - 1, LastLine))
      ]_vars

\* the key reaches the if chain of event(): no copy is in progress and no
\* number is pending, and the needle is not being edited
ReachesChain ==
    /\ diff_search.search.kind # "IncSearch"
    /\ copy_op.state = "None"
    /\ ~pending_movement.some

\* C28: the forward or backward search key (reaching the if chain of the
\* view) starts IncSearch with an empty needle and remembers the selected
\* line; Enter turns IncSearch with a non-empty needle into Search and ends
\* the search when the needle is empty; Esc in IncSearch ends the search and
\* restores the selection to the remembered line, whatever moved the
\* selection in between (the remembered line being a line of the diff
\* shown); Esc in Search ends the search and leaves the selection.
SearchSubMachine ==
    [][key_event' # "none" /\ ~diff_panicked' =>
          LET k == key_event'
              srch == diff_search.search
          IN
          /\ k \in {"/", "?"} /\ ReachesChain =>
                /\ diff_search'.search =
                      IncSearch(<<>>, get_start(diff_selection))
                /\ diff_search'.direction =
                      IF k = "/" THEN "Forward" ELSE "Backward"
          /\ k = "Enter" /\ srch.kind = "IncSearch" =>
                diff_search'.search =
                    IF srch.s # <<>> THEN Search(srch.s) ELSE SearchNone
          /\ k = "Esc" /\ srch.kind = "IncSearch" =>
                /\ diff_search'.search = SearchNone
                /\ diff.some /\ srch.p <= LastLine =>
                      diff_selection' = Single(srch.p)
          /\ k = "Esc" /\ srch.kind = "Search" =>
                /\ diff_search'.search = SearchNone
                /\ diff_selection' = diff_selection
      ]_vars

\* Esc ended an IncSearch and the selection is on a line other than the
\* first, with the copy machine and the pending number idle
SearchSubMachineWitness ==
    /\ key_event = "Esc"
    /\ search_before = "IncSearch"
    /\ diff_search.search = SearchNone
    /\ diff_selection = Single(2)

\* the line a search with the needle from line p selects: forwards the first
\* line after p that contains the needle, backwards the last one before p,
\* and p when there is none
SearchFrom(needle, p, direction) ==
    LET hit(i) == str_contains(line_content(i), needle)
        after == {i \in LineIndices : i > p /\ hit(i)}
        before == {i \in LineIndices : i < p /\ hit(i)}
    IN  IF direction = "Forward"
        THEN (IF after = {} THEN p ELSE Least(after))
        ELSE (IF before = {} THEN p ELSE Greatest(before))

\* C29: in IncSearch, Backspace removes exactly the last character of the
\* needle and runs the search again from the remembered start line, for
\* every needle including the empty one, which stays empty; the key event
\* always completes normally.
BackspaceInIncSearch ==
    [][key_event' = "Backspace" /\ diff_search.search.kind = "IncSearch" =>
          LET srch == diff_search.search
              shorter == IF srch.s = <<>> THEN <<>>
                         ELSE SubSeq(srch.s, 1, Len(srch.s) - 1)
          IN
          /\ diff_panicked' = FALSE
          /\ diff_search'.search = IncSearch(shorter, srch.p)
          /\ diff.some /\ srch.p <= LastLine =>
                diff_selection' =
                    Single(SearchFrom(shorter, srch.p, diff_search.direction))
      ]_vars

\* C30: whenever a number is pending, the next key that is neither a digit
\* nor Up or Down clears it, in every state of the search and of the copy
\* machine.
PendingClearedByOtherKey ==
    [][/\ pending_movement.some
       /\ key_event' # "none"
       /\ key_event' \notin {"Up", "Down"}
       /\ to_digit(key_event') = -1
       => ~pending_movement'.some]_vars

\* C38: after every key event on a loaded diff both ends of the selection
\* are lines of the diff, between 0 and lines - 1, also after extending the
\* selection downwards again and again at the end of the diff.
SelectionWithinDiff ==
    key_event # "none" /\ ~diff_panicked /\ diff.some /\ diff.lines > 0 =>
        /\ get_start(diff_selection) \in 0 .. diff.lines - 1
        /\ get_end(diff_selection) \in 0 .. diff.lines - 1

\* C31: the key-combo state of the commit list leaves Empty only on the
\* search-init or the filter-init key, and after the next key event,
\* whichever key it is, the state is Empty again.
ComboEmptyAfterSecondKey ==
    /\ [][combo_state = "Empty" /\ combo_state' # "Empty"
            => combo_key' \in {"/", "="}]_vars
    /\ [][combo_state # "Empty" /\ combo_key' # "none"
            => combo_state' = "Empty"]_vars

\* the positions in the batch of the commits that match the search
Matching == checked(cs_options', current_search')

\* the selection is the commit at position i of the batch
SelectsAt(i) ==
    cs_selection' = cs_offset + i /\ UNCHANGED extended_search_request

\* C32: with a non-empty needle search_commit_forward selects the nearest
\* matching commit after the selection in the loaded batch, and otherwise
\* leaves the selection and sets the request Forward; search_commit_backward
\* selects the nearest match before the selection and otherwise sets the
\* request Backward; a request is returned once by
\* has_extended_search_request.
SearchCommitSymmetric ==
    [][LET loc == cs_selection - cs_offset
           after == {i \in Matching : i > loc}
           earlier == {i \in Matching : i < loc}
       IN
       /\ cs_op'.name = "forward" /\ current_search' # <<>> =>
             IF after # {} THEN SelectsAt(Least(after))
             ELSE /\ cs_selection' = cs_selection
                  /\ extended_search_request' = "Forward"
       /\ cs_op'.name = "backward" /\ current_search' # <<>> =>
             IF earlier # {} THEN SelectsAt(Greatest(earlier))
             ELSE /\ cs_selection' = cs_selection
                  /\ extended_search_request' = "Backward"
       /\ cs_op'.name = "has_request" =>
             /\ cs_op'.returned = extended_search_request
             /\ extended_search_request' = "Empty"
      ]_vars

\* C32, amended: as above, but search_commit_backward sets the request
\* Backward only when the batch does not start at the first commit of the
\* log (index_offset > 0); with a batch that starts at the first commit
\* and no match before the selection it changes nothing.
SearchCommitNearest ==
    [][LET loc == cs_selection - cs_offset
           after == {i \in Matching : i > loc}
           earlier == {i \in Matching : i < loc}
       IN
       /\ cs_op'.name = "forward" /\ current_search' # <<>> =>
             IF after # {} THEN SelectsAt(Least(after))
             ELSE /\ cs_selection' = cs_selection
                  /\ extended_search_request' = "Forward"
       /\ cs_op'.name = "backward" /\ current_search' # <<>> =>
             IF earlier # {} THEN SelectsAt(Greatest(earlier))
             ELSE /\ cs_selection' = cs_selection
                  /\ extended_search_request' =
                        IF cs_offset > 0 THEN "Backward"
                        ELSE extended_search_request
       /\ cs_op'.name = "has_request" =>
             /\ cs_op'.returned = extended_search_request
             /\ extended_search_request' = "Empty"
      ]_vars

\* a backward search from the second commit of a batch that starts at the
\* first commit of the log found nothing and left no request
SearchCommitNearestWitness ==
    /\ cs_op.name = "backward" /\ current_search # <<>>
    /\ cs_offset = 0 /\ cs_selection = 1 /\ Len(cs_items) > 1
    /\ checked(cs_options, current_search) = {}
    /\ extended_search_request = "Empty"

\* C33: the stack of blame requests is last in, first out: after a push by
\* the blame key and a later pop, once the blame of the restored request is
\* loaded, the open request and the selected row are those that were
\* current immediately before the push; a pop on the empty stack changes
\* nothing.
BlameStackRestores ==
    /\ [](restored.some /\ file_blame =>
            /\ open_request = restored.request
            /\ blame_row = restored.row)
    /\ [][restored'.empty
            => UNCHANGED <<open_request, blame_row, file_blame,
                           previous_request_stack>>]_vars

\* C34: on every Tick or Notify event the loop runs app.on_tick() (unless
\* app.update() returned an error, which ends the loop), and it runs
\* app.update() exactly when the accumulator, increased by 120, exceeds
\* 5000, after which the accumulator is reduced modulo 5000; app.update()
\* runs at most once in any 41 consecutive Tick or Notify events, and the
\* accumulator never exceeds 5000 when an iteration ends.
UpdateAtMostOncePerInterval ==
    /\ [][tick_event' \in {"Tick", "Notify"} =>
            /\ tick_ran'.update = (update_ticker + 120 > 5000)
            /\ tick_pc' = "loop" => tick_ran'.on_tick
            /\ update_ticker' = IF tick_ran'.update
                                THEN (update_ticker + 120) % 5000
                                ELSE update_ticker + 120
            /\ tick_ran'.update => since_update + 1 >= 41]_vars
    /\ [][tick_event' \notin {"Tick", "Notify"} =>
            tick_ran' = RanNothing /\ update_ticker' = update_ticker]_vars
    /\ [](update_ticker <= 5000)

\* app.update() ran when the accumulator had reached 5000 the event
\* before: it is reduced to 120, and the next update is 41 events on
UpdateAtMostOncePerIntervalWitness ==
    tick_ran.update /\ since_update = 0 /\ update_ticker = 120 /\ tick_pc = "loop"

PendingWhileInFlight == cmd_pending <=> in_flight > 0

\* C40: whenever the popup handles Enter, delete or a shortcut assignment
\* with the focus on the list, the list of commands is not empty and
\* selected_idx is an index into it, and the key event does not panic.
PopupIndexValid ==
    [][/\ popup_key' # "none" /\ popup_focused = "List"
       /\ \/ popup_key' = "Enter"
          \/ /\ popup_key' \notin {"Esc", "w"}
             /\ extern_cmds # <<>>
             /\ popup_key' \in {"d", "x"} \/ shortcut_state = "Assign"
       => /\ extern_cmds # <<>>
          /\ selected_idx < Len(extern_cmds)
          /\ ~popup_panicked']_vars

\* C36: whenever a sequence-editor child has attached to the shared memory
\* and blocks waiting for shutdown, the parent signals shutdown on every
\* path out of rebase_interactive, so that the child never waits forever:
\* once rebase_interactive has returned the event is signaled for a child
\* that waits, and a child that waits leaves the wait.
AttachedChildNeverWaitsForever ==
    /\ [](rpc = "returned" /\ cpc = "wait_shutdown" => shm.shutdown)
    /\ (cpc = "wait_shutdown") ~> (cpc = "exit_ok")

\* the child left its wait after the mutator had failed
AttachedChildNeverWaitsForeverWitness ==
    cpc = "exit_ok" /\ rresult = "MutatorFailed"


\* C37: after any sequence of key events in the blame view (movement, a
\* typed line number followed by End, search editing, search_next), the
\* view has not panicked, the selected row and the line of the search start
\* are lines of the blamed file, and the offset of the search start lies
\* within that line.
BlamePositionsInFile ==
    blame_state # "Closed" =>
        /\ blame_state # "Panicked"
        /\ table_state <= get_max_line_number
        /\ search.start.line <= get_max_line_number
        /\ search.start.offset <= Len(LineBytes(blame_lines, search.start.line))

====
